---- MODULE Spec2Model ----
(***************************************************************************)
(* Verification model of the DS-160 voice data-collection repository.      *)
(*                                                                         *)
(* Four components are modelled, each with its own specification:          *)
(*   Spec      - the Convex functions of convex/funcs.ts over the "forms"  *)
(*               and "transcripts" tables of convex/schema.ts;             *)
(*   SpecHook  - VapiWebhookHandler (the webhook relay) together with the  *)
(*               ds160:* mutations it calls;                               *)
(*   SpecAgent - DS160VapiAgent.handleFunctionCall of vapi-agent.ts;       *)
(*   SpecClient - the voice session client, SignedInContent of src/App.tsx,*)
(*               with the vendor SDK and the automation endpoint as its    *)
(*               environment.                                              *)
(* Strings whose content matters (transcript chunks) are sequences of      *)
(* one-character strings, so that concatenation and join are computed.     *)
(***************************************************************************)
EXTENDS Integers, Sequences, FiniteSets, TLC

(* ------------------------------ bounds -------------------------------- *)
MaxForms == 2
MaxDocs == 4
MaxClock == 1

(* ------------------------------ inputs -------------------------------- *)
Users == {"u1", "u2"}
NoIdentity == "anonymous"
Callers == Users \cup {NoIdentity}
CallIds == {"abc", "xyz"}
Statuses == {"in_progress", "completed", "failed", "abandoned"}
TerminalStatuses == {"completed", "failed", "abandoned"}
(* funcs.ts stores callId and never reads it back: one value takes every
   path of create_form, and a second create with it is a repeated delivery. *)
FormCallIds == {"abc"}
ChunkTexts == {<<"a">>, <<"b">>}
FormIds == 1..MaxForms

(* An optional value is a sequence of length 0 (absent) or 1 (present). *)
None == <<>>
Some(x) == <<x>>

ErrNotAuthenticated == "User not authenticated"
ErrUnauthorized == "Form not found or unauthorized"
NoError == "none"

(* forms, transcripts   the two tables of convex/schema.ts (funcs.ts);
   sent                history of the chunks accepted per form, in call order
                       (specification-only: it lets ordering be stated);
   clock               the latest value new Date() has returned;
   reply               what the last funcs.ts call returned or threw;
   collections         the session records behind the ds160:* mutations;
   hookReply           the Response of the last webhook and what it issued;
   collectedData       DS160VapiAgent.collectedData;
   saveAttempts        number of saveToConvex() requests issued by the agent;
   agentOut            what the last DS160VapiAgent call did;
   vapi                the React state vapi: whether the SDK instance is set;
   sdk                 the state of loadVapi and the sources it imported from;
   callStatus, isCallActive, conversationData, currentSessionId
                       the React state of SignedInContent;
   vendor              the vendor SDK's side: vapi.start() calls made and
                       outstanding, whether a call is live, calls started,
                       vapi.stop() calls made;
   ending              the endInterview runs suspended at an await;
   handoffs            the requests sent to the automation endpoint;
   clientOut           what the last client step was and how it went. *)
VARIABLES forms, transcripts, sent, clock, reply,
          collections, hookReply,
          collectedData, saveAttempts, agentOut,
          vapi, sdk, callStatus, isCallActive, conversationData,
          currentSessionId, vendor, ending, handoffs, clientOut,
          claimed, apiReply,
          sessions, trackReply,
          selectedLanguage, assistant, configOut,
          automationStatus, sessionAlerts, timers, statusInterval, polls,
          observed, pollOut

formVars == <<forms, transcripts, sent, reply>>
hookVars == <<collections, hookReply>>
agentVars == <<collectedData, saveAttempts, agentOut>>
clientVars == <<vapi, sdk, callStatus, isCallActive, conversationData,
                currentSessionId, vendor, ending, handoffs, clientOut>>
apiVars == <<claimed, apiReply>>
trackVars == <<sessions, trackReply>>
configVars == <<selectedLanguage, assistant, configOut>>
pollVars == <<automationStatus, sessionAlerts, timers, statusInterval, polls,
              observed, pollOut>>
sideVars == <<apiVars, trackVars, configVars, pollVars>>
vars == <<forms, transcripts, sent, clock, reply, collections, hookReply,
          collectedData, saveAttempts, agentOut,
          vapi, sdk, callStatus, isCallActive, conversationData,
          currentSessionId, vendor, ending, handoffs, clientOut,
          claimed, apiReply, sessions, trackReply,
          selectedLanguage, assistant, configOut,
          automationStatus, sessionAlerts, timers, statusInterval, polls,
          observed, pollOut>>

(* ------------------------- convex/funcs.ts ---------------------------- *)

(* Mutant: an identity for every caller. *)
getUserIdentityForAnyone(caller) == Some(caller)

(* ctx.auth.getUserIdentity(): null for an unauthenticated caller. *)
getUserIdentity(caller) == IF caller = NoIdentity THEN None ELSE Some(caller)

(* ctx.db.get(formId): the document, or null when no document has the id. *)
dbGet(formId) == IF formId \in 1..Len(forms) THEN Some(forms[formId]) ELSE None

(* Mutant: the guard without the ownership comparison. *)
notFoundOnly(caller, formId) == dbGet(formId) = None

(* Mutant: a form without userId passes the comparison. *)
notFoundOrOwnedByOther(caller, formId) ==
    \/ dbGet(formId) = None
    \/ /\ dbGet(formId)[1].userId # None
       /\ dbGet(formId)[1].userId # Some(caller)

(* The guard "!form || form.userId !== userId.subject" shared by four handlers. *)
notFoundOrUnauthorized(caller, formId) ==
    \/ dbGet(formId) = None
    \/ dbGet(formId)[1].userId # Some(caller)

(* The error a handler that takes a formId throws, or NoError. *)
accessError(caller, formId) ==
    IF getUserIdentity(caller) = None THEN ErrNotAuthenticated
    ELSE IF notFoundOrUnauthorized(caller, formId) THEN ErrUnauthorized
    ELSE NoError

(* What a call came to, with the caller and the formId it was made with. *)
Reply(op, caller, formId, error, form, text) ==
    [op |-> op, caller |-> caller, formId |-> formId,
     error |-> error, form |-> form, text |-> text]

(* Array.prototype.join: the elements separated by sep. *)
RECURSIVE join(_, _)
join(strs, sep) ==
    IF Len(strs) = 0 THEN <<>>
    ELSE IF Len(strs) = 1 THEN strs[1]
    ELSE strs[1] \o sep \o join(Tail(strs), sep)

(* Mutant: the index read newest first. *)
collectByFormIdDesc(formId) ==
    LET rows == SelectSeq(transcripts, LAMBDA t : t.formId = formId)
    IN [i \in 1..Len(rows) |-> rows[Len(rows) + 1 - i]]

(* Mutant: the whole table read, whatever the formId. *)
collectWholeTable(formId) == transcripts

(* withIndex("by_form_id", q => q.eq("formId", formId)).collect(): the rows of
   the form in index order, which within one formId is insertion order. *)
collectByFormId(formId) == SelectSeq(transcripts, LAMBDA t : t.formId = formId)

RECURSIVE mapChunk(_)
mapChunk(rows) ==
    IF rows = <<>> THEN <<>> ELSE <<rows[1].chunk>> \o mapChunk(Tail(rows))

transcriptText(formId) == join(mapChunk(collectByFormId(formId)), <<"\n">>)

get_form(caller, formId) ==
    /\ reply' = IF accessError(caller, formId) # NoError
                THEN Reply("get_form", caller, Some(formId), accessError(caller, formId), None, None)
                ELSE Reply("get_form", caller, Some(formId), NoError, dbGet(formId), None)
    /\ UNCHANGED <<forms, transcripts, sent, clock>>

newForm(caller, callId) ==
    [callId |-> callId, status |-> "in_progress", completedAt |-> None,
     userId |-> Some(caller)]

create_form(caller, callId) ==
    IF getUserIdentity(caller) = None
    THEN /\ reply' = Reply("create_form", caller, None, ErrNotAuthenticated, None, None)
         /\ UNCHANGED <<forms, transcripts, sent, clock>>
    ELSE /\ Len(forms) < MaxForms
         /\ Len(forms) + Len(transcripts) < MaxDocs
         /\ forms' = Append(forms, newForm(caller, callId))
         /\ reply' = Reply("create_form", caller, None, NoError, None, None)
         /\ UNCHANGED <<transcripts, sent, clock>>

(* ctx.db.patch: status always, completedAt only when the target is completed. *)
(* Mutant: the patch also writes the callId. *)
patchStatusRekeying(form, status, now) ==
    [form EXCEPT !.status = status,
                 !.completedAt = IF status = "completed" THEN Some(now) ELSE @,
                 !.callId = "xyz"]

patchStatus(form, status, now) ==
    [form EXCEPT !.status = status,
                 !.completedAt = IF status = "completed" THEN Some(now) ELSE @]

(* Mutant: the patch applied for any authenticated caller. *)
updateFormStatusAnyCaller(caller, formId, status, now) ==
    IF getUserIdentity(caller) = None \/ dbGet(formId) = None
    THEN /\ reply' = Reply("update_form_status", caller, Some(formId), accessError(caller, formId), None, None)
         /\ UNCHANGED <<forms, transcripts, sent, clock>>
    ELSE /\ now >= clock
         /\ forms' = [forms EXCEPT ![formId] = patchStatus(@, status, now)]
         /\ clock' = IF status = "completed" THEN now ELSE clock
         /\ reply' = Reply("update_form_status", caller, Some(formId), NoError, None, None)
         /\ UNCHANGED <<transcripts, sent>>

update_form_status(caller, formId, status, now) ==
    IF accessError(caller, formId) # NoError
    THEN /\ reply' = Reply("update_form_status", caller, Some(formId), accessError(caller, formId), None, None)
         /\ UNCHANGED <<forms, transcripts, sent, clock>>
    ELSE /\ now >= clock
         /\ forms' = [forms EXCEPT ![formId] = patchStatus(@, status, now)]
         /\ clock' = IF status = "completed" THEN now ELSE clock
         /\ reply' = Reply("update_form_status", caller, Some(formId), NoError, None, None)
         /\ UNCHANGED <<transcripts, sent>>

(* Mutant: chunks accepted only while the form is in_progress. *)
addTranscriptChunkWhileInProgress(caller, formId, chunk) ==
    IF accessError(caller, formId) # NoError \/ forms[formId].status # "in_progress"
    THEN /\ reply' = Reply("add_transcript_chunk", caller, Some(formId),
                           ErrUnauthorized, None, None)
         /\ UNCHANGED <<forms, transcripts, sent, clock>>
    ELSE /\ Len(forms) + Len(transcripts) < MaxDocs
         /\ transcripts' = Append(transcripts, [formId |-> formId, chunk |-> chunk])
         /\ sent' = [sent EXCEPT ![formId] = Append(@, chunk)]
         /\ reply' = Reply("add_transcript_chunk", caller, Some(formId), NoError, None, None)
         /\ UNCHANGED <<forms, clock>>

(* Mutant: the new chunk takes the place of the form's earlier chunks. *)
addTranscriptChunkOverwriting(caller, formId, chunk) ==
    IF accessError(caller, formId) # NoError
    THEN /\ reply' = Reply("add_transcript_chunk", caller, Some(formId), accessError(caller, formId), None, None)
         /\ UNCHANGED <<forms, transcripts, sent, clock>>
    ELSE /\ Len(forms) + Len(transcripts) < MaxDocs
         /\ transcripts' = Append(SelectSeq(transcripts, LAMBDA t : t.formId # formId),
                                  [formId |-> formId, chunk |-> chunk])
         /\ sent' = [sent EXCEPT ![formId] = Append(@, chunk)]
         /\ reply' = Reply("add_transcript_chunk", caller, Some(formId), NoError, None, None)
         /\ UNCHANGED <<forms, clock>>

add_transcript_chunk(caller, formId, chunk) ==
    IF accessError(caller, formId) # NoError
    THEN /\ reply' = Reply("add_transcript_chunk", caller, Some(formId), accessError(caller, formId), None, None)
         /\ UNCHANGED <<forms, transcripts, sent, clock>>
    ELSE /\ Len(forms) + Len(transcripts) < MaxDocs
         /\ transcripts' = Append(transcripts, [formId |-> formId, chunk |-> chunk])
         /\ sent' = [sent EXCEPT ![formId] = Append(@, chunk)]
         /\ reply' = Reply("add_transcript_chunk", caller, Some(formId), NoError, None, None)
         /\ UNCHANGED <<forms, clock>>

get_transcripts(caller, formId) ==
    /\ reply' = IF accessError(caller, formId) # NoError
                THEN Reply("get_transcripts", caller, Some(formId), accessError(caller, formId), None, None)
                ELSE Reply("get_transcripts", caller, Some(formId), NoError, None, Some(transcriptText(formId)))
    /\ UNCHANGED <<forms, transcripts, sent, clock>>

(* A forms document written without userId, which the schema's
   v.optional(v.id("users")) admits: by the dashboard, an import or any
   writer other than create_form. *)
insertUnownedForm(callId) ==
    /\ Len(forms) < MaxForms
    /\ Len(forms) + Len(transcripts) < MaxDocs
    /\ forms' = Append(forms, [callId |-> callId, status |-> "in_progress",
                               completedAt |-> None, userId |-> None])
    /\ reply' = Reply("insert", NoIdentity, None, NoError, None, None)
    /\ UNCHANGED <<transcripts, sent, clock>>

InsertUnownedForm ==
    /\ \E callId \in FormCallIds : insertUnownedForm(callId)
    /\ UNCHANGED <<hookVars, agentVars, clientVars, sideVars>>
GetForm ==
    /\ \E caller \in Callers, formId \in FormIds : get_form(caller, formId)
    /\ UNCHANGED <<hookVars, agentVars, clientVars, sideVars>>
CreateForm ==
    /\ \E caller \in Callers, callId \in FormCallIds : create_form(caller, callId)
    /\ UNCHANGED <<hookVars, agentVars, clientVars, sideVars>>
UpdateFormStatus ==
    /\ \E caller \in Callers, formId \in FormIds, status \in Statuses :
          \E now \in (IF status = "completed" THEN clock..MaxClock ELSE {clock}) :
              update_form_status(caller, formId, status, now)
    /\ UNCHANGED <<hookVars, agentVars, clientVars, sideVars>>
AddTranscriptChunk ==
    /\ \E caller \in Callers, formId \in FormIds, chunk \in ChunkTexts :
          add_transcript_chunk(caller, formId, chunk)
    /\ UNCHANGED <<hookVars, agentVars, clientVars, sideVars>>
GetTranscripts ==
    /\ \E caller \in Callers, formId \in FormIds : get_transcripts(caller, formId)
    /\ UNCHANGED <<hookVars, agentVars, clientVars, sideVars>>

(* ------------------ webhook relay (VapiWebhookHandler) ----------------- *)

HttpOk == 200
HttpError == 500

Vals == {"x", "y"}
HookVals == {"x"}

(* The seven cases of the switch that save a section. *)
SaveFunctions ==
    {"save_personal_info", "save_passport_info", "save_travel_info",
     "save_contact_info", "save_family_info", "save_work_info",
     "save_security_info"}

(* The function names the model delivers; the last is handled by no case. *)
FunctionNames ==
    {"save_passport_info", "save_family_info", "complete_collection", "get_weather"}

(* properties / required of the two delivered save functions' schemas. *)
properties(name) ==
    IF name = "save_passport_info" THEN {"passportNumber", "passportBookNumber"}
    ELSE IF name = "save_family_info" THEN {"fatherName", "spouseName"}
    ELSE {}

required(name) ==
    IF name = "save_passport_info" THEN {"passportNumber"}
    ELSE IF name = "save_family_info" THEN {"fatherName"}
    ELSE {}

(* The parameter objects the assistant can send for a function: every
   required key, any of the optional ones, values from vals. *)
Parameters(name, vals) ==
    UNION {[D -> vals] : D \in {E \in SUBSET properties(name) : required(name) \subseteq E}}

FunctionCalls(vals) ==
    UNION {{[name |-> n, parameters |-> p] : p \in Parameters(n, vals)} : n \in FunctionNames}

EmptyObject == [k \in {} |-> "x"]

EventTypes ==
    {"call-started", "function-call", "call-ended", "speech-update", "status-update"}

OptCall == {None} \cup {Some(c) : c \in CallIds}

(* Webhook payloads: payload.call and payload.functionCall may be missing. *)
Events ==
    {[type |-> t, call |-> c, functionCall |-> None] : t \in EventTypes, c \in OptCall}
    \cup {[type |-> "function-call", call |-> c, functionCall |-> Some(f)] :
            c \in OptCall, f \in FunctionCalls(HookVals)}

NoDiag == "none"
DiagDuplicate == "duplicate session"
DiagNoActive == "no such active session"

(* What a mutation call came to: it threw (gateway unreachable) or it ran,
   leaving the records as given and possibly recording a diagnostic. *)
Outcome(threw, colls, diag) == [threw |-> threw, collections |-> colls, diag |-> diag]

Untouched == Outcome(FALSE, collections, NoDiag)

(* --- the ds160:* mutations (section 4.3 of the specification) --- *)

isActive(callId) ==
    /\ collections[callId] # None
    /\ collections[callId][1].status = "in_progress"

(* Mutant: the record is created already completed. *)
createCollectionCompleted(callId) ==
    IF collections[callId] # None
    THEN Outcome(FALSE, collections, DiagDuplicate)
    ELSE Outcome(FALSE,
                 [collections EXCEPT ![callId] =
                     Some([status |-> "completed", completedAt |-> None,
                           data |-> EmptyObject])],
                 NoDiag)

(* createSession: a record with status in_progress; a no-op for a callId
   that already has one. *)
createCollection(callId) ==
    IF collections[callId] # None
    THEN Outcome(FALSE, collections, DiagDuplicate)
    ELSE Outcome(FALSE,
                 [collections EXCEPT ![callId] =
                     Some([status |-> "in_progress", completedAt |-> None,
                           data |-> EmptyObject])],
                 NoDiag)

(* Mutant: the section written whatever the record's status. *)
updateCollectionDataAnyStatus(callId, section, data) ==
    IF collections[callId] = None
    THEN Outcome(FALSE, collections, DiagNoActive)
    ELSE LET rec == collections[callId][1]
             merged == [rec EXCEPT !.data = (section :> data) @@ rec.data]
         IN Outcome(FALSE, [collections EXCEPT ![callId] = Some(merged)], NoDiag)

(* mergeField: replaces the section's payload wholesale while in_progress. *)
updateCollectionData(callId, section, data) ==
    IF ~isActive(callId)
    THEN Outcome(FALSE, collections, DiagNoActive)
    ELSE LET rec == collections[callId][1]
             merged == [rec EXCEPT !.data = (section :> data) @@ rec.data]
         IN Outcome(FALSE, [collections EXCEPT ![callId] = Some(merged)], NoDiag)

(* Mutant: the terminal transition applied to a terminal record too. *)
finalizeAnyStatus(callId, outcome, now) ==
    IF collections[callId] = None
    THEN Outcome(FALSE, collections, DiagNoActive)
    ELSE LET rec == collections[callId][1]
             done == [rec EXCEPT !.status = outcome, !.completedAt = Some(now)]
         IN Outcome(FALSE, [collections EXCEPT ![callId] = Some(done)], NoDiag)

(* finalize: in_progress -> outcome, setting completedAt; rejected otherwise. *)
finalize(callId, outcome, now) ==
    IF ~isActive(callId)
    THEN Outcome(FALSE, collections, DiagNoActive)
    ELSE LET rec == collections[callId][1]
             done == [rec EXCEPT !.status = outcome, !.completedAt = Some(now)]
         IN Outcome(FALSE, [collections EXCEPT ![callId] = Some(done)], NoDiag)

(* Mutant: the status update applied whatever the record's status. *)
updateCollectionAnyStatus(callId, status, now) == finalizeAnyStatus(callId, status, now)

updateCollection(callId, status, now) == finalize(callId, status, now)

completeCollection(callId, now) == finalize(callId, "completed", now)

(* --- VapiWebhookHandler --- *)

(* this.convex.mutation(...): rejects when the gateway is unreachable. *)
mutation(up, result) == IF up THEN result ELSE Outcome(TRUE, collections, NoDiag)

(* What a handler's promise resolves to.  escaped: the promise rejects
   instead; every throwing expression of the four handlers (functionCall.name,
   call.id, the awaited mutation) is inside the handler's try, whose catch
   returns the 500 response. *)
Response(status, issued, out) ==
    [status |-> status, issued |-> issued, threw |-> out.threw, diag |-> out.diag,
     collections |-> out.collections, escaped |-> FALSE]

(* Request bodies request.json() yields no payload object for: a body that is
   not JSON, and the JSON null. *)
UnparsedBodies == {"not json", "null"}

(* Mutant: request.json() awaited outside the try. *)
handleUnparsedOutsideTry(body) ==
    [Response(HttpError, <<>>, Untouched) EXCEPT !.escaped = (body = "not json")]

(* request.json() rejects, or payload.type of null throws: both inside
   handleWebhook's try, whose catch answers 500. *)
handleUnparsed(body) == Response(HttpError, <<>>, Untouched)

(* Mutant: a recorded rejection answered like a failure. *)
statusOfRejecting(out) == IF out.threw \/ out.diag # NoDiag THEN HttpError ELSE HttpOk

(* Mutant: the catch block answers like the success path. *)
statusOfSwallowing(out) == HttpOk

(* try { ... return 200 } catch { return 500 } around one awaited mutation. *)
statusOf(out) == IF out.threw THEN HttpError ELSE HttpOk

(* Mutant: the section saved under another call's id. *)
saveDataToConvexOtherCall(callId, section, data, up) ==
    mutation(up, updateCollectionData(CHOOSE c \in CallIds : c # callId, section, data))

saveDataToConvex(callId, section, data, up) ==
    mutation(up, updateCollectionData(callId, section, data))

completeDS160Collection(callId, parameters, up, now) ==
    mutation(up, completeCollection(callId, now))

(* Mutant: complete_collection also saves its parameters as a section. *)
handleFunctionCallSavingCompletion(payload, up, now) ==
    IF payload.functionCall = None
    THEN Response(HttpError, <<>>, Untouched)
    ELSE LET functionCall == payload.functionCall[1] IN
         IF payload.call = None
         THEN Response(HttpError, <<>>, Untouched)
         ELSE IF functionCall.name \in SaveFunctions \cup {"complete_collection"}
         THEN LET out == saveDataToConvex(payload.call[1], functionCall.name,
                                          functionCall.parameters, up)
              IN Response(statusOf(out),
                          IF functionCall.name \in SaveFunctions
                          THEN <<"ds160:updateCollectionData">>
                          ELSE <<"ds160:updateCollectionData",
                                 "ds160:completeCollection">>,
                          out)
         ELSE Response(HttpOk, <<>>, Untouched)

handleFunctionCall(payload, up, now) ==
    IF payload.functionCall = None
    THEN Response(HttpError, <<>>, Untouched)
    ELSE LET functionCall == payload.functionCall[1] IN
         IF functionCall.name \in SaveFunctions
         THEN IF payload.call = None
              THEN Response(HttpError, <<>>, Untouched)
              ELSE LET out == saveDataToConvex(payload.call[1], functionCall.name,
                                               functionCall.parameters, up)
                   IN Response(statusOf(out), <<"ds160:updateCollectionData">>, out)
         ELSE IF functionCall.name = "complete_collection"
         THEN IF payload.call = None
              THEN Response(HttpError, <<>>, Untouched)
              ELSE LET out == completeDS160Collection(payload.call[1],
                                                      functionCall.parameters, up, now)
                   IN Response(statusOf(out), <<"ds160:completeCollection">>, out)
         ELSE Response(HttpOk, <<>>, Untouched)

handleCallStarted(payload, up) ==
    IF payload.call = None
    THEN Response(HttpError, <<>>, Untouched)
    ELSE LET out == mutation(up, createCollection(payload.call[1]))
         IN Response(statusOf(out), <<"ds160:createCollection">>, out)

(* Mutant: call-ended acknowledged without the status update. *)
handleCallEndedAcknowledging(payload, up, now) == Response(HttpOk, <<>>, Untouched)

handleCallEnded(payload, up, now) ==
    IF payload.call = None
    THEN Response(HttpError, <<>>, Untouched)
    ELSE LET out == mutation(up, updateCollection(payload.call[1], "completed", now))
         IN Response(statusOf(out), <<"ds160:updateCollection">>, out)

(* Mutant: speech-update handled like call-started. *)
handleSpeechUpdateStarting(payload) == handleCallStarted(payload, TRUE)

handleSpeechUpdate(payload) == Response(HttpOk, <<>>, Untouched)

(* Mutant: the default case falls into the call-started handler. *)
handleWebhookDefaultStarts(payload, up, now) ==
    IF payload.type = "function-call" THEN handleFunctionCall(payload, up, now)
    ELSE IF payload.type = "call-ended" THEN handleCallEnded(payload, up, now)
    ELSE IF payload.type = "speech-update" THEN handleSpeechUpdate(payload)
    ELSE handleCallStarted(payload, up)

handleWebhook(payload, up, now) ==
    IF payload.type = "function-call" THEN handleFunctionCall(payload, up, now)
    ELSE IF payload.type = "call-ended" THEN handleCallEnded(payload, up, now)
    ELSE IF payload.type = "call-started" THEN handleCallStarted(payload, up)
    ELSE IF payload.type = "speech-update" THEN handleSpeechUpdate(payload)
    ELSE Response(HttpOk, <<>>, Untouched)

(* new Date() is evaluated by the three handlers that stamp a time. *)
readsDate(payload) ==
    /\ payload.call # None
    /\ \/ payload.type \in {"call-started", "call-ended"}
       \/ /\ payload.type = "function-call"
          /\ payload.functionCall # None
          /\ payload.functionCall[1].name = "complete_collection"

(* One webhook delivery. Each handler awaits a single mutation, which the
   store runs as one transaction, so deliveries that overlap in time are
   equivalent to some order of these steps. *)
Deliver(payload, up, now) ==
    LET r == handleWebhook(payload, up, now) IN
    /\ now >= clock
    /\ collections' = r.collections
    /\ hookReply' = [type |-> payload.type, call |-> payload.call,
                     functionCall |-> payload.functionCall, up |-> up,
                     status |-> r.status, issued |-> r.issued,
                     threw |-> r.threw, diag |-> r.diag, escaped |-> r.escaped]
    /\ clock' = IF readsDate(payload) THEN now ELSE clock
    /\ UNCHANGED <<formVars, agentVars, clientVars, sideVars>>

(* One delivery whose body gives no payload object. *)
UnparsedBody ==
    \E body \in UnparsedBodies, up \in BOOLEAN :
        LET r == handleUnparsed(body) IN
        /\ collections' = r.collections
        /\ hookReply' = [type |-> body, call |-> None, functionCall |-> None,
                         up |-> up, status |-> r.status, issued |-> r.issued,
                         threw |-> r.threw, diag |-> r.diag,
                         escaped |-> r.escaped]
        /\ UNCHANGED <<formVars, agentVars, clientVars, sideVars, clock>>

(* The times new Date() can return for a delivery. *)
Now(payload) == IF readsDate(payload) THEN clock..MaxClock ELSE {clock}

CallStarted ==
    \E payload \in Events, up \in BOOLEAN :
        /\ payload.type = "call-started"
        /\ \E now \in Now(payload) : Deliver(payload, up, now)

FunctionCall ==
    \E payload \in Events, up \in BOOLEAN :
        /\ payload.type = "function-call"
        /\ \E now \in Now(payload) : Deliver(payload, up, now)

CallEnded ==
    \E payload \in Events, up \in BOOLEAN :
        /\ payload.type = "call-ended"
        /\ \E now \in Now(payload) : Deliver(payload, up, now)

SpeechUpdate ==
    \E payload \in Events, up \in BOOLEAN :
        /\ payload.type = "speech-update"
        /\ \E now \in Now(payload) : Deliver(payload, up, now)

UnhandledEvent ==
    \E payload \in Events, up \in BOOLEAN :
        /\ payload.type \notin {"call-started", "function-call", "call-ended",
                                "speech-update"}
        /\ \E now \in Now(payload) : Deliver(payload, up, now)

(* ------------------- DS160VapiAgent (vapi-agent.ts) -------------------- *)

MaxSaves == 2

FetchOutcomes == {"ok", "not_ok", "network_error"}

(* Object.assign(target, source): source's keys overwrite, the rest stay. *)
objectAssign(target, source) == source @@ target

AgentOut(functionName, parameters, save) ==
    [functionName |-> functionName, parameters |-> parameters, save |-> save,
     threw |-> FALSE]

(* Mutant: a save that did not succeed empties collectedData. *)
saveToConvexClearing(fetchOutcome) ==
    /\ saveAttempts < MaxSaves
    /\ saveAttempts' = saveAttempts + 1
    /\ collectedData' = IF fetchOutcome = "ok" THEN collectedData
                                                ELSE EmptyObject

(* saveToConvex(): one fetch; a non-OK response and a rejected fetch are
   both only logged. *)
saveToConvex(fetchOutcome) ==
    /\ saveAttempts < MaxSaves
    /\ saveAttempts' = saveAttempts + 1
    /\ UNCHANGED collectedData

agentHandleFunctionCall(functionName, parameters, fetchOutcome) ==
    IF functionName \in SaveFunctions
    THEN /\ collectedData' = objectAssign(collectedData, parameters)
         /\ agentOut' = AgentOut(functionName, parameters, "not_attempted")
         /\ UNCHANGED saveAttempts
    ELSE IF functionName = "complete_collection"
    THEN /\ saveToConvex(fetchOutcome)
         /\ agentOut' = AgentOut(functionName, parameters, fetchOutcome)
    ELSE /\ agentOut' = AgentOut(functionName, parameters, "not_attempted")
         /\ UNCHANGED <<collectedData, saveAttempts>>

clearData ==
    /\ collectedData' = EmptyObject
    /\ agentOut' = AgentOut("clearData", EmptyObject, "not_attempted")
    /\ UNCHANGED saveAttempts

AgentSave ==
    /\ \E f \in FunctionCalls(Vals), fetchOutcome \in FetchOutcomes :
          /\ f.name \in SaveFunctions
          /\ agentHandleFunctionCall(f.name, f.parameters, fetchOutcome)
    /\ UNCHANGED <<formVars, hookVars, clientVars, clock, sideVars>>

AgentComplete ==
    /\ \E f \in FunctionCalls(Vals), fetchOutcome \in FetchOutcomes :
          /\ f.name = "complete_collection"
          /\ agentHandleFunctionCall(f.name, f.parameters, fetchOutcome)
    /\ UNCHANGED <<formVars, hookVars, clientVars, clock, sideVars>>

AgentUnknown ==
    /\ \E f \in FunctionCalls(Vals), fetchOutcome \in FetchOutcomes :
          /\ f.name \notin SaveFunctions \cup {"complete_collection"}
          /\ agentHandleFunctionCall(f.name, f.parameters, fetchOutcome)
    /\ UNCHANGED <<formVars, hookVars, clientVars, clock, sideVars>>

AgentClear == clearData /\ UNCHANGED <<formVars, hookVars, clientVars, clock, sideVars>>

(* ---------------- voice session client (src/App.tsx) ------------------ *)

MaxStarts == 2
MaxEnds == 2
MaxMessages == 1

PrimarySource == "https://esm.sh/@vapi-ai/web@2.3.9"

StatusIdle == "idle"
StatusStillLoading == "VAPI is still loading..."
StatusStarting == "Starting call..."
StatusStartFailed == "Failed to start call: "
StatusCallStarted == "Call started! You can now speak..."
StatusCallEnded == "Call ended. Thank you for your visa interview!"
StatusListening == "Listening to you..."
StatusResponding == "Assistant is responding..."
StatusError == "Error: "
StatusProcessing == "Processing interview data..."
StatusAutomationStarted == "Interview completed! Form filling automation started..."
StatusAutomationFailed == "Interview ended but automation failed"
StatusAutomationUnreachable ==
    "Interview ended but could not connect to automation service."
StatusEndError == "Error ending call: "

(* The messages the SDK's 'message' event delivers. *)
Messages ==
    {[type |-> "transcript", transcriptType |-> "final", role |-> "user",
      transcript |-> "hi"],
     [type |-> "transcript", transcriptType |-> "partial", role |-> "user",
      transcript |-> "h"],
     [type |-> "function-call", transcriptType |-> "none", role |-> "assistant",
      transcript |-> ""]}

ClientOut(op, outcome) ==
    [op |-> op, outcome |-> outcome, error |-> None, message |-> None]
ClientOutMessage(op, outcome, message) ==
    [op |-> op, outcome |-> outcome, error |-> None, message |-> Some(message)]

(* What the vendor rejects or raises: an Error with a message, or a value
   without one. *)
VendorErrors == {None, Some("Permission denied"), Some("Meeting ended")}
ClientOutError(op, outcome, error) ==
    [op |-> op, outcome |-> outcome, error |-> error, message |-> None]

(* 'Failed to start call: ' + error.message *)
startFailedStatus(error) ==
    StatusStartFailed \o (IF error = None THEN "undefined" ELSE error[1])

(* 'Error: ' + (error.message || 'Failed to start call') *)
errorStatus(error) ==
    StatusError \o (IF error = None THEN "Failed to start call" ELSE error[1])

(* The i-th element of a sequence taken out. *)
without(seq, i) == SubSeq(seq, 1, i - 1) \o SubSeq(seq, i + 1, Len(seq))

(* loadVapi: the dynamic import resolved and new Vapi(...) was stored. *)
loadVapiResolved ==
    /\ sdk.state = "loading"
    /\ sdk' = [sdk EXCEPT !.state = "loaded"]
    /\ vapi' = TRUE
    /\ clientOut' = ClientOut("loadVapi", "loaded")
    /\ UNCHANGED <<callStatus, isCallActive, conversationData, currentSessionId,
                   vendor, ending, handoffs>>

(* loadVapi: the import (or the constructor) threw; the catch only logs. *)
loadVapiRejected ==
    /\ sdk.state = "loading"
    /\ sdk' = [sdk EXCEPT !.state = "failed"]
    /\ clientOut' = ClientOut("loadVapi", "failed")
    /\ UNCHANGED <<vapi, callStatus, isCallActive, conversationData,
                   currentSessionId, vendor, ending, handoffs>>

(* The Start button is rendered while !isCallActive and disabled while !vapi. *)
startOffered == ~isCallActive /\ vapi

(* startInterview up to its await: vapi.start(assistantConfig) is called. *)
startInterview ==
    IF ~vapi
    THEN /\ callStatus' = StatusStillLoading
         /\ clientOut' = ClientOut("startInterview", "not_loaded")
         /\ UNCHANGED <<vapi, sdk, isCallActive, conversationData,
                        currentSessionId, vendor, ending, handoffs>>
    ELSE /\ vendor.starts < MaxStarts
         /\ callStatus' = StatusStarting
         /\ vendor' = [vendor EXCEPT !.starts = @ + 1, !.outstanding = @ + 1]
         /\ clientOut' = ClientOut("startInterview", "starting")
         /\ UNCHANGED <<vapi, sdk, isCallActive, conversationData,
                        currentSessionId, ending, handoffs>>

(* Mutant: the catch starts the call again. *)
startRejectedRetrying(error) ==
    /\ vendor.outstanding > 0
    /\ vendor' = [vendor EXCEPT !.starts = @ + 1]
    /\ callStatus' = startFailedStatus(error)
    /\ clientOut' = ClientOutError("startInterview", "failed", error)
    /\ UNCHANGED <<vapi, sdk, isCallActive, conversationData, currentSessionId,
                   ending, handoffs>>

(* startInterview's catch: vapi.start() rejected with error. *)
startRejected(error) ==
    /\ vendor.outstanding > 0
    /\ vendor' = [vendor EXCEPT !.outstanding = @ - 1]
    /\ callStatus' = startFailedStatus(error)
    /\ clientOut' = ClientOutError("startInterview", "failed", error)
    /\ UNCHANGED <<vapi, sdk, isCallActive, conversationData, currentSessionId,
                   ending, handoffs>>

(* vapi.on('call-start'): a started call went live. *)
onCallStart ==
    /\ vendor.outstanding > 0
    /\ vendor' = [vendor EXCEPT !.outstanding = @ - 1, !.live = TRUE,
                                !.calls = @ + 1]
    /\ isCallActive' = TRUE
    /\ callStatus' = StatusCallStarted
    /\ clientOut' = ClientOut("call-start", "handled")
    /\ UNCHANGED <<vapi, sdk, conversationData, currentSessionId, ending, handoffs>>

(* vapi.on('call-end'): the live call ended, after a stop or on the vendor's
   side. *)
onCallEnd ==
    /\ vendor.live
    /\ vendor' = [vendor EXCEPT !.live = FALSE]
    /\ isCallActive' = FALSE
    /\ callStatus' = StatusCallEnded
    /\ clientOut' = ClientOut("call-end", "handled")
    /\ UNCHANGED <<vapi, sdk, conversationData, currentSessionId, ending, handoffs>>

onSpeechStart ==
    /\ vendor.live
    /\ callStatus' = StatusListening
    /\ clientOut' = ClientOut("speech-start", "handled")
    /\ UNCHANGED <<vapi, sdk, isCallActive, conversationData, currentSessionId,
                   vendor, ending, handoffs>>

onSpeechEnd ==
    /\ vendor.live
    /\ callStatus' = StatusResponding
    /\ clientOut' = ClientOut("speech-end", "handled")
    /\ UNCHANGED <<vapi, sdk, isCallActive, conversationData, currentSessionId,
                   vendor, ending, handoffs>>

(* Mutant: every transcript message is appended, final or not. *)
onMessageStoringPartials(message, now) ==
    /\ vendor.live
    /\ IF message.type = "transcript"
       THEN /\ Len(conversationData) < MaxMessages
            /\ now >= clock
            /\ conversationData' =
                  Append(conversationData,
                         [role |-> message.role, transcript |-> message.transcript,
                          timestamp |-> now])
            /\ clock' = now
            /\ clientOut' = ClientOutMessage("message", "stored", message)
       ELSE /\ clientOut' = ClientOutMessage("message", "ignored", message)
            /\ UNCHANGED <<conversationData, clock>>
    /\ UNCHANGED <<vapi, sdk, callStatus, isCallActive, currentSessionId, vendor,
                   ending, handoffs>>

(* vapi.on('message'): a final transcript is appended with its time. *)
onMessage(message, now) ==
    /\ vendor.live
    /\ IF message.type = "transcript" /\ message.transcriptType = "final"
       THEN /\ Len(conversationData) < MaxMessages
            /\ now >= clock
            /\ conversationData' =
                  Append(conversationData,
                         [role |-> message.role, transcript |-> message.transcript,
                          timestamp |-> now])
            /\ clock' = now
            /\ clientOut' = ClientOutMessage("message", "stored", message)
       ELSE /\ clientOut' = ClientOutMessage("message", "ignored", message)
            /\ UNCHANGED <<conversationData, clock>>
    /\ UNCHANGED <<vapi, sdk, callStatus, isCallActive, currentSessionId, vendor,
                   ending, handoffs>>

(* vapi.on('error'): raised by the SDK while a call is starting or live. *)
onError(error) ==
    /\ vendor.outstanding > 0 \/ vendor.live
    /\ callStatus' = errorStatus(error)
    /\ isCallActive' = FALSE
    /\ clientOut' = ClientOutError("error", "handled", error)
    /\ UNCHANGED <<vapi, sdk, conversationData, currentSessionId, vendor, ending,
                   handoffs>>

(* Mutant: the End click clears isCallActive itself. *)
endInterviewClearingFlag ==
    IF vapi /\ isCallActive
    THEN /\ vendor.stops < MaxEnds
         /\ vendor' = [vendor EXCEPT !.stops = @ + 1]
         /\ ending' = Append(ending, [at |-> "stop", session |-> vendor.calls,
                                      data |-> conversationData])
         /\ isCallActive' = FALSE
         /\ clientOut' = ClientOut("endInterview", "stopping")
         /\ UNCHANGED <<vapi, sdk, callStatus, conversationData,
                        currentSessionId, handoffs>>
    ELSE /\ clientOut' = ClientOut("endInterview", "inactive")
         /\ UNCHANGED <<vapi, sdk, callStatus, isCallActive, conversationData,
                        currentSessionId, vendor, ending, handoffs>>

(* Mutant: the run entered whatever vapi and isCallActive are. *)
endInterviewUnguarded ==
    /\ vendor.stops < MaxEnds
    /\ vendor' = [vendor EXCEPT !.stops = @ + 1]
    /\ ending' = Append(ending, [at |-> "stop", session |-> vendor.calls,
                                 data |-> conversationData])
    /\ clientOut' = ClientOut("endInterview", "stopping")
    /\ UNCHANGED <<vapi, sdk, callStatus, isCallActive, conversationData,
                   currentSessionId, handoffs>>

(* endInterview up to its first await: vapi.stop() is called. The run keeps
   the conversationData of the render it was created in. *)
endInterview ==
    IF vapi /\ isCallActive
    THEN /\ vendor.stops < MaxEnds
         /\ vendor' = [vendor EXCEPT !.stops = @ + 1]
         /\ ending' = Append(ending, [at |-> "stop", session |-> vendor.calls,
                                      data |-> conversationData])
         /\ clientOut' = ClientOut("endInterview", "stopping")
         /\ UNCHANGED <<vapi, sdk, callStatus, isCallActive, conversationData,
                        currentSessionId, handoffs>>
    ELSE /\ clientOut' = ClientOut("endInterview", "inactive")
         /\ UNCHANGED <<vapi, sdk, callStatus, isCallActive, conversationData,
                        currentSessionId, vendor, ending, handoffs>>

(* One line of form_data per message; the lines are joined with "\n". *)
formLine(msg) == <<msg.role, ": ", msg.transcript, " (", msg.timestamp, ")">>

(* The body posted to /automated_form_filler. session is the call the run
   was started in (specification-only: the request does not carry it). *)
handoffRequest(sessionId, run) ==
    [id |-> sessionId,
     form_data |-> [i \in 1..Len(run.data) |-> formLine(run.data[i])],
     conversation_data |-> run.data,
     total_messages |-> Len(run.data),
     session |-> run.session]

(* endInterview after vapi.stop() resolved: the session id is made from
   Date.now() and the hand-off request is sent. *)
stopResolved(i, now) ==
    /\ ending[i].at = "stop"
    /\ now >= clock
    /\ clock' = now
    /\ callStatus' = StatusProcessing
    /\ currentSessionId' = Some(now)
    /\ handoffs' = Append(handoffs, handoffRequest(now, ending[i]))
    /\ ending' = [ending EXCEPT ![i].at = "fetch"]
    /\ clientOut' = ClientOut("stop", "resolved")
    /\ UNCHANGED <<vapi, sdk, isCallActive, conversationData, vendor>>

(* endInterview's outer catch: vapi.stop() rejected. *)
stopRejected(i) ==
    /\ ending[i].at = "stop"
    /\ callStatus' = StatusEndError
    /\ ending' = without(ending, i)
    /\ clientOut' = ClientOut("stop", "rejected")
    /\ UNCHANGED <<vapi, sdk, isCallActive, conversationData, currentSessionId,
                   vendor, handoffs>>

(* The status shown for the outcome of the hand-off request. *)
statusAfterHandoff(fetchOutcome) ==
    IF fetchOutcome = "ok" THEN StatusAutomationStarted
    ELSE IF fetchOutcome = "not_ok" THEN StatusAutomationFailed
    ELSE StatusAutomationUnreachable

(* Mutant: a failed hand-off ends the run like a failed stop. *)
handoffSettledAsError(i, fetchOutcome) ==
    /\ ending[i].at = "fetch"
    /\ callStatus' = IF fetchOutcome = "ok" THEN StatusAutomationStarted
                     ELSE StatusEndError
    /\ ending' = without(ending, i)
    /\ clientOut' = ClientOut("handoff", fetchOutcome)
    /\ UNCHANGED <<vapi, sdk, isCallActive, conversationData, currentSessionId,
                   vendor, handoffs>>

(* endInterview after the fetch settled: success, a non-OK response, or the
   inner catch. *)
handoffSettled(i, fetchOutcome) ==
    /\ ending[i].at = "fetch"
    /\ callStatus' = statusAfterHandoff(fetchOutcome)
    /\ ending' = without(ending, i)
    /\ clientOut' = ClientOut("handoff", fetchOutcome)
    /\ UNCHANGED <<vapi, sdk, isCallActive, conversationData, currentSessionId,
                   vendor, handoffs>>

LoadVapiResolved == loadVapiResolved /\ UNCHANGED <<formVars, hookVars, agentVars, clock, sideVars>>
LoadVapiRejected == loadVapiRejected /\ UNCHANGED <<formVars, hookVars, agentVars, clock, sideVars>>
StartInterview ==
    /\ startOffered
    /\ startInterview
    /\ UNCHANGED <<formVars, hookVars, agentVars, clock, sideVars>>
StartRejected ==
    \E error \in VendorErrors :
        startRejected(error) /\ UNCHANGED <<formVars, hookVars, agentVars, clock, sideVars>>
OnCallStart == onCallStart /\ UNCHANGED <<formVars, hookVars, agentVars, clock, sideVars>>
OnCallEnd == onCallEnd /\ UNCHANGED <<formVars, hookVars, agentVars, clock, sideVars>>
OnSpeechStart == onSpeechStart /\ UNCHANGED <<formVars, hookVars, agentVars, clock, sideVars>>
OnSpeechEnd == onSpeechEnd /\ UNCHANGED <<formVars, hookVars, agentVars, clock, sideVars>>
OnMessage ==
    /\ \E message \in Messages, now \in clock..MaxClock : onMessage(message, now)
    /\ UNCHANGED <<formVars, hookVars, agentVars, sideVars>>
OnError ==
    \E error \in VendorErrors :
        onError(error) /\ UNCHANGED <<formVars, hookVars, agentVars, clock, sideVars>>
(* endInterview is applied in every state; its own guard decides. *)
EndInterview == endInterview /\ UNCHANGED <<formVars, hookVars, agentVars, clock, sideVars>>
StopResolved ==
    /\ \E i \in 1..Len(ending), now \in clock..MaxClock : stopResolved(i, now)
    /\ UNCHANGED <<formVars, hookVars, agentVars, sideVars>>
StopRejected ==
    /\ \E i \in 1..Len(ending) : stopRejected(i)
    /\ UNCHANGED <<formVars, hookVars, agentVars, clock, sideVars>>
HandoffSettled ==
    /\ \E i \in 1..Len(ending), fetchOutcome \in FetchOutcomes :
          handoffSettled(i, fetchOutcome)
    /\ UNCHANGED <<formVars, hookVars, agentVars, clock, sideVars>>

(* ------------- monitoring API (agent_flow_analysis.md) ----------------- *)

(* A path is its sequence of segments; ":callId" in a pattern is a route
   parameter and takes any one segment. *)
Param == ":callId"
ReadyForFill == "ready-for-fill"
Methods == {"GET", "POST"}
PathCallIds == CallIds \cup {ReadyForFill}
Paths ==
    {<<"health">>, <<"api", "vapi", "call", "abc">>, <<"api", "collections">>}
    \cup {<<"api", "collections", c>> : c \in PathCallIds}
    \cup {<<"api", "collections", c, "mark-for-fill">> : c \in CallIds}

Route(method, pattern, handler) ==
    [method |-> method, pattern |-> pattern, handler |-> handler]

(* The routes in the order app.get / app.post / app.patch register them. *)
routes ==
    << Route("POST", <<"webhook", "vapi">>, "webhook"),
       Route("GET", <<"health">>, "health"),
       Route("GET", <<"api", "config">>, "config"),
       Route("POST", <<"api", "vapi", "assistant">>, "createAssistant"),
       Route("POST", <<"api", "vapi", "call">>, "startCall"),
       Route("PATCH", <<"api", "vapi", "call", Param>>, "endCall"),
       Route("GET", <<"api", "vapi", "call", Param>>, "callStatus"),
       Route("GET", <<"api", "collections">>, "getAllCollections"),
       Route("GET", <<"api", "collections", Param>>, "getCollectionByCallId"),
       Route("GET", <<"api", "collections", ReadyForFill>>, "getReadyForFormFill"),
       Route("POST", <<"api", "collections", Param, "mark-for-fill">>,
             "markForFormFill") >>

(* Express matches a route when the method agrees and every segment of the
   pattern is the path's segment or a parameter. *)
matches(route, method, path) ==
    /\ route.method = method
    /\ Len(route.pattern) = Len(path)
    /\ \A i \in 1..Len(path) :
           route.pattern[i] = Param \/ route.pattern[i] = path[i]

(* The router runs the first registered route that matches; no handler here
   calls next().  0: no route matches. *)
dispatch(method, path) ==
    LET hits == {i \in 1..Len(routes) : matches(routes[i], method, path)}
    IN  IF hits = {} THEN 0
        ELSE CHOOSE i \in hits : \A j \in hits : i <= j

(* req.params.callId of the matched route. *)
paramOf(route, path) ==
    LET at == {i \in 1..Len(path) : route.pattern[i] = Param}
    IN  IF at = {} THEN None ELSE Some(path[CHOOSE i \in at : TRUE])

NoQuery == "none"
ApiResult(status, query, body, marked) ==
    [status |-> status, query |-> query, body |-> body, claimed |-> marked]

(* ds160:getAllCollections *)
getAllCollections == {c \in CallIds : collections[c] # None}

(* ds160:getCollectionByCallId: the record of the call, or null. *)
getCollectionByCallId(callId) ==
    IF callId \in CallIds THEN collections[callId] ELSE None

(* ds160:getReadyForFormFill: completed sessions nobody has claimed. *)
getReadyForFormFill ==
    {c \in CallIds : /\ collections[c] # None
                     /\ collections[c][1].status = "completed"
                     /\ c \notin claimed}

(* ds160:markForFormFill: claims a session that is ready. *)
markForFormFill(callId) ==
    IF callId \in getReadyForFormFill THEN claimed \cup {callId} ELSE claimed

(* What the vendor's API answers a proxied request: a status, or 0 when the
   fetch itself fails. *)
Upstream == {200, 0}

(* The proxies to the vendor: its status passed on, 500 when fetch throws. *)
proxy(upstream) ==
    ApiResult(IF upstream = 0 THEN HttpError ELSE upstream, NoQuery, <<>>, claimed)

(* The handler of each route.  up: the Convex gateway answers. *)
handle(handler, param, up, upstream) ==
    CASE handler \in {"health", "config"} ->
           ApiResult(HttpOk, NoQuery, <<>>, claimed)
      [] handler \in {"createAssistant", "startCall", "endCall", "callStatus"} ->
           proxy(upstream)
      [] handler = "getAllCollections" ->
           IF up
           THEN ApiResult(HttpOk, "ds160:getAllCollections", getAllCollections,
                          claimed)
           ELSE ApiResult(HttpError, "ds160:getAllCollections", <<>>, claimed)
      [] handler = "getCollectionByCallId" ->
           IF ~up
           THEN ApiResult(HttpError, "ds160:getCollectionByCallId", <<>>, claimed)
           ELSE IF getCollectionByCallId(param[1]) = None
           THEN ApiResult(404, "ds160:getCollectionByCallId", <<>>, claimed)
           ELSE ApiResult(HttpOk, "ds160:getCollectionByCallId",
                          getCollectionByCallId(param[1]), claimed)
      [] handler = "getReadyForFormFill" ->
           IF up
           THEN ApiResult(HttpOk, "ds160:getReadyForFormFill",
                          getReadyForFormFill, claimed)
           ELSE ApiResult(HttpError, "ds160:getReadyForFormFill", <<>>, claimed)
      [] handler = "markForFormFill" ->
           IF up
           THEN ApiResult(HttpOk, "ds160:markForFormFill", <<>>,
                          markForFormFill(param[1]))
           ELSE ApiResult(HttpError, "ds160:markForFormFill", <<>>, claimed)

(* One request to the server: routed, handled, answered. *)
request(method, path, up, upstream) ==
    LET i == dispatch(method, path)
        r == IF i = 0
             THEN ApiResult(404, NoQuery, <<>>, claimed)
             ELSE handle(routes[i].handler, paramOf(routes[i], path), up,
                         upstream)
    IN  /\ claimed' = r.claimed
        /\ apiReply' = [method |-> method, path |-> path,
                        handler |-> IF i = 0 THEN "none" ELSE routes[i].handler,
                        param |-> IF i = 0 THEN None
                                  ELSE paramOf(routes[i], path),
                        query |-> r.query, status |-> r.status,
                        body |-> r.body]

ApiRequest ==
    \E method \in Methods, path \in Paths, up \in BOOLEAN, upstream \in Upstream :
        /\ request(method, path, up, upstream)
        /\ UNCHANGED <<formVars, hookVars, agentVars, clientVars, clock,
                       trackVars, configVars, pollVars>>

(* ------------- automation tracking service (localhost:8000) ------------ *)

(* The ids the callers use, test_integration_<Date.now()> of
   test-endpoints.js and visa_interview_<Date.now()> of the client: an id is
   the time it was made at. *)
SessionIds == 0..MaxClock
TrackStatuses == {"initializing", "running", "completed", "error"}
NotFound == "not_found"

TrackReply(op, id, status, body) ==
    [op |-> op, id |-> id, status |-> status, body |-> body]

(* trackReply: the service's last step and what it answered. *)
(* The ids of the sessions the service holds. *)
allSessions == {id \in SessionIds : sessions[id] # None}

(* POST /automated_form_filler: the session of the id is created, or started
   afresh. *)
startAutomation(id) ==
    /\ sessions' = [sessions EXCEPT ![id] = Some("initializing")]
    /\ trackReply' = TrackReply("start", Some(id), HttpOk, Some("initializing"))

(* The automation run moves on by itself; nothing is answered. *)
advance(id) ==
    /\ sessions[id] # None
    /\ \E next \in TrackStatuses :
           /\ \/ sessions[id][1] = "initializing" /\ next \in {"running", "error"}
              \/ sessions[id][1] = "running" /\ next \in {"completed", "error"}
           /\ sessions' = [sessions EXCEPT ![id] = Some(next)]
           /\ trackReply' = TrackReply("advance", Some(id), HttpOk, Some(next))

(* GET /tracking/status/{id}: 200 with the session's status, or 200 with
   not_found when the service holds no such session. *)
getStatus(id) ==
    /\ trackReply' = TrackReply("status", Some(id), HttpOk,
                                IF sessions[id] = None THEN Some(NotFound)
                                ELSE sessions[id])
    /\ UNCHANGED sessions

(* GET /tracking/status: every session held. *)
getAllSessions ==
    /\ trackReply' = TrackReply("list", None, HttpOk, allSessions)
    /\ UNCHANGED sessions

(* Mutant: cleanup keeps the record and marks it. *)
cleanupMarking(id) ==
    /\ sessions' = [sessions EXCEPT ![id] = IF @ = None THEN None ELSE Some("cleaned")]
    /\ trackReply' = TrackReply("cleanup", Some(id), HttpOk, sessions[id])

(* DELETE /tracking/cleanup/{id}: the session of the id is removed; the
   answer tells what was held. *)
cleanup(id) ==
    /\ sessions' = [sessions EXCEPT ![id] = None]
    /\ trackReply' = TrackReply("cleanup", Some(id), HttpOk, sessions[id])

StartAutomation ==
    \E id \in SessionIds :
        /\ startAutomation(id)
        /\ UNCHANGED <<formVars, hookVars, agentVars, clientVars, clock,
                       apiVars, configVars, pollVars>>
Advance ==
    \E id \in SessionIds :
        /\ advance(id)
        /\ UNCHANGED <<formVars, hookVars, agentVars, clientVars, clock,
                       apiVars, configVars, pollVars>>
GetStatus ==
    \E id \in SessionIds :
        /\ getStatus(id)
        /\ UNCHANGED <<formVars, hookVars, agentVars, clientVars, clock,
                       apiVars, configVars, pollVars>>
GetAllSessions ==
    /\ getAllSessions
    /\ UNCHANGED <<formVars, hookVars, agentVars, clientVars, clock,
                   apiVars, configVars, pollVars>>
CleanupSessionData ==
    \E id \in SessionIds :
        /\ cleanup(id)
        /\ UNCHANGED <<formVars, hookVars, agentVars, clientVars, clock,
                       apiVars, configVars, pollVars>>

(* -------------- automation status polling (src/App.tsx) ---------------- *)

MaxPolls == 2
MaxTimers == 4
TimerIds == 1..MaxTimers

PollingStatuses == {"running", "initializing"}
DoneStatuses == {"completed", "error"}
Scheduled == "scheduled"
Unreachable == "unreachable"
StatusCleanedUp == "Session data cleaned up."

(* A checkAutomationStatus call on its way: who made it (the setTimeout of
   endInterview or the interval of a timer), for which session, and what its
   fetch brings back. *)
Poll(by, timer, session, status) ==
    [by |-> by, timer |-> timer, session |-> session, status |-> status]

PollOut(op, session, status) == [op |-> op, session |-> session, status |-> status]

(* What fetch(/tracking/status/{id}) brings back: the status the service
   answers, or nothing usable (a rejected fetch, a non-OK response). *)
fetched(id) ==
    {IF sessions[id] = None THEN NotFound ELSE sessions[id][1], Unreachable}

(* An interval id no live interval and no poll on its way holds. *)
freshTimer(ts, ps) ==
    CHOOSE t \in TimerIds :
        /\ \A x \in ts : x.id # t
        /\ \A q \in ps : q.timer # t

(* Mutant: the effect without its cleanup function. *)
useEffectWithoutCleanup(sessionId, status, ps) ==
    IF /\ sessionId # None
       /\ status # None
       /\ status[1] \in PollingStatuses
    THEN LET t == freshTimer(timers, ps)
         IN [timers |-> timers \cup {[id |-> t, session |-> sessionId[1]]},
             statusInterval |-> Some(t)]
    ELSE [timers |-> timers, statusInterval |-> None]

(* The polling useEffect run for new dependencies: the previous run's cleanup
   clears its interval, then an interval is set when a session id exists and
   the status is running or initializing. *)
useEffect(sessionId, status, ps) ==
    LET cleaned == {x \in timers : statusInterval = None \/ x.id # statusInterval[1]}
    IN  IF /\ sessionId # None
           /\ status # None
           /\ status[1] \in PollingStatuses
        THEN LET t == freshTimer(cleaned, ps)
             IN [timers |-> cleaned \cup {[id |-> t, session |-> sessionId[1]]},
                 statusInterval |-> Some(t)]
        ELSE [timers |-> cleaned, statusInterval |-> None]

(* Date.now() gives an id that no session known to the service, no poll on
   its way and no interval has. *)
freshSession(now) ==
    /\ sessions[now] = None
    /\ now \notin observed
    /\ \A q \in polls : q.session # now
    /\ \A x \in timers : x.session # now

(* endInterview once the hand-off is accepted: the session id is set, the
   service holds the session, and a first status check is scheduled. *)
beginSession(now) ==
    /\ now >= clock
    /\ freshSession(now)
    /\ Cardinality(polls) < MaxPolls
    /\ clock' = now
    /\ currentSessionId' = Some(now)
    /\ startAutomation(now)
    /\ polls' = polls \cup {Poll("timeout", 0, now, Scheduled)}
    /\ IF currentSessionId = Some(now)
       THEN UNCHANGED <<timers, statusInterval>>
       ELSE LET e == useEffect(Some(now), automationStatus, polls')
            IN /\ timers' = e.timers
               /\ statusInterval' = e.statusInterval
    /\ pollOut' = PollOut("begin", now, Scheduled)
    /\ UNCHANGED <<automationStatus, sessionAlerts, observed>>

(* The setTimeout of endInterview fires: checkAutomationStatus sends its
   fetch. *)
timeoutFires(p, status) ==
    /\ p.status = Scheduled
    /\ polls' = (polls \ {p}) \cup {Poll(p.by, p.timer, p.session, status)}
    /\ pollOut' = PollOut("timeout", p.session, status)
    /\ UNCHANGED <<currentSessionId, automationStatus, sessionAlerts, timers,
                   statusInterval, observed, sessions, trackReply, clock>>

(* An interval fires: its callback calls checkAutomationStatus for the session
   id of the effect run that set it. *)
tick(t, status) ==
    /\ Cardinality(polls) < MaxPolls
    /\ polls' = polls \cup {Poll("timer", t.id, t.session, status)}
    /\ pollOut' = PollOut("tick", t.session, status)
    /\ UNCHANGED <<currentSessionId, automationStatus, sessionAlerts, timers,
                   statusInterval, observed, sessions, trackReply, clock>>

(* A checkAutomationStatus call returns.  With a usable response the status
   is stored (a new object, so the effect runs again); the interval's callback
   then clears its interval and fetches the alerts when the status is
   completed or error. *)
pollReturns(p) ==
    /\ p.status # Scheduled
    /\ polls' = polls \ {p}
    /\ pollOut' = PollOut("returns", p.session, p.status)
    /\ IF p.status = Unreachable
       THEN UNCHANGED <<automationStatus, sessionAlerts, timers, statusInterval,
                        observed>>
       ELSE LET e == useEffect(currentSessionId, Some(p.status), polls')
                done == p.by = "timer" /\ p.status \in DoneStatuses
            IN /\ automationStatus' = Some(p.status)
               /\ timers' = IF done THEN {x \in e.timers : x.id # p.timer}
                            ELSE e.timers
               /\ statusInterval' = e.statusInterval
               /\ sessionAlerts' = IF done THEN <<p.session>> ELSE sessionAlerts
               /\ observed' = IF done THEN observed \cup {p.session} ELSE observed
    /\ UNCHANGED <<currentSessionId, sessions, trackReply, clock>>

(* The Cleanup Session button: the service's session is deleted and the
   client's session state is reset. *)
cleanupClicked ==
    /\ currentSessionId # None
    /\ cleanup(currentSessionId[1])
    /\ currentSessionId' = None
    /\ automationStatus' = None
    /\ sessionAlerts' = <<>>
    /\ callStatus' = StatusCleanedUp
    /\ LET e == useEffect(None, None, polls)
       IN /\ timers' = e.timers
          /\ statusInterval' = e.statusInterval
    /\ pollOut' = PollOut("cleanup", currentSessionId[1], NotFound)
    /\ clientOut' = ClientOut("cleanup", "done")
    /\ UNCHANGED <<polls, observed, clock>>

pollFrame == <<vapi, sdk, callStatus, isCallActive, conversationData, vendor,
               ending, handoffs, clientOut>>

BeginSession ==
    \E now \in clock..MaxClock :
        /\ beginSession(now)
        /\ UNCHANGED <<formVars, hookVars, agentVars, apiVars, configVars, pollFrame>>
TimeoutFires ==
    \E p \in polls :
        \E status \in fetched(p.session) :
            /\ timeoutFires(p, status)
            /\ UNCHANGED <<formVars, hookVars, agentVars, apiVars, configVars,
                           pollFrame>>
Tick ==
    \E t \in timers :
        \E status \in fetched(t.session) :
            /\ tick(t, status)
            /\ UNCHANGED <<formVars, hookVars, agentVars, apiVars, configVars,
                           pollFrame>>
PollReturns ==
    \E p \in polls :
        /\ pollReturns(p)
        /\ UNCHANGED <<formVars, hookVars, agentVars, apiVars, configVars, pollFrame>>
CleanupClicked ==
    /\ cleanupClicked
    /\ UNCHANGED <<formVars, hookVars, agentVars, apiVars, configVars,
                   vapi, sdk, isCallActive, conversationData, vendor, ending,
                   handoffs>>

(* -------------------- assistant configuration registry ----------------- *)

(* The registry's entries whose voice the documentation gives; English is the
   designated default. *)
DefaultLanguage == "en-US"
SupportedLanguages == {"en-US", "es-ES", "fr-FR", "de-DE", "zh-CN"}
UnrecognizedKeys == {"xx-XX", "", "es"}
LanguageKeys == SupportedLanguages \cup UnrecognizedKeys

Bundle(language, voiceId) ==
    [transcriber |-> [provider |-> "deepgram", model |-> "nova-2",
                      language |-> language],
     voice |-> [provider |-> "azure", voiceId |-> voiceId]]

LANGUAGE_CONFIG ==
    [key \in SupportedLanguages |->
        CASE key = "en-US" -> Bundle("en", "en-US-AriaNeural")
          [] key = "es-ES" -> Bundle("es", "es-ES-ElviraNeural")
          [] key = "fr-FR" -> Bundle("fr", "fr-FR-DeniseNeural")
          [] key = "de-DE" -> Bundle("de", "de-DE-KatjaNeural")
          [] key = "zh-CN" -> Bundle("zh", "zh-CN-XiaoxiaoNeural")]

(* Mutant: no entry, no bundle. *)
getLanguageConfigStrict(key) ==
    IF key \in DOMAIN LANGUAGE_CONFIG THEN Some(LANGUAGE_CONFIG[key]) ELSE None

(* The lookup: the key's entry, or the default language's when the registry
   has none. *)
getLanguageConfig(key) ==
    IF key \in DOMAIN LANGUAGE_CONFIG
    THEN Some(LANGUAGE_CONFIG[key])
    ELSE Some(LANGUAGE_CONFIG[DefaultLanguage])

(* The dropdown's choice, or whatever key was saved locally. *)
SelectLanguage ==
    \E key \in LanguageKeys :
        /\ selectedLanguage' = key
        /\ UNCHANGED <<assistant, configOut>>
        /\ UNCHANGED <<formVars, hookVars, agentVars, clientVars, clock,
                       apiVars, trackVars, pollVars>>

(* A lookup by any caller. *)
GetLanguageConfig ==
    \E key \in LanguageKeys :
        /\ configOut' = [key |-> Some(key), bundle |-> getLanguageConfig(key)]
        /\ UNCHANGED <<selectedLanguage, assistant>>
        /\ UNCHANGED <<formVars, hookVars, agentVars, clientVars, clock,
                       apiVars, trackVars, pollVars>>

(* Assistant creation configures recognition and voice for the selected
   language. *)
CreateAssistant ==
    /\ assistant' = getLanguageConfig(selectedLanguage)
    /\ configOut' = [key |-> Some(selectedLanguage),
                     bundle |-> getLanguageConfig(selectedLanguage)]
    /\ UNCHANGED selectedLanguage
    /\ UNCHANGED <<formVars, hookVars, agentVars, clientVars, clock,
                   apiVars, trackVars, pollVars>>

(* --------------------------- specifications --------------------------- *)

Init ==
    /\ forms = <<>>
    /\ transcripts = <<>>
    /\ sent = [f \in FormIds |-> <<>>]
    /\ clock = 0
    /\ reply = Reply("none", NoIdentity, None, NoError, None, None)
    /\ collections = [c \in CallIds |-> None]
    /\ hookReply = [type |-> "none", call |-> None, functionCall |-> None,
                    up |-> TRUE, status |-> HttpOk, issued |-> <<>>, threw |-> FALSE,
                    diag |-> NoDiag, escaped |-> FALSE]
    /\ collectedData = EmptyObject
    /\ saveAttempts = 0
    /\ agentOut = AgentOut("none", EmptyObject, "not_attempted")
    /\ vapi = FALSE
    /\ sdk = [state |-> "loading", imports |-> <<PrimarySource>>]
    /\ callStatus = StatusIdle
    /\ isCallActive = FALSE
    /\ conversationData = <<>>
    /\ currentSessionId = None
    /\ vendor = [starts |-> 0, outstanding |-> 0, live |-> FALSE, calls |-> 0,
                 stops |-> 0]
    /\ ending = <<>>
    /\ handoffs = <<>>
    /\ clientOut = ClientOut("none", "none")
    /\ claimed = {}
    /\ apiReply = [method |-> "none", path |-> <<>>, handler |-> "none",
                   param |-> None, query |-> NoQuery, status |-> HttpOk,
                   body |-> <<>>]
    /\ sessions = [id \in SessionIds |-> None]
    /\ trackReply = TrackReply("none", None, HttpOk, None)
    /\ selectedLanguage = DefaultLanguage
    /\ assistant = None
    /\ configOut = [key |-> None, bundle |-> None]
    /\ automationStatus = None
    /\ sessionAlerts = <<>>
    /\ timers = {}
    /\ statusInterval = None
    /\ polls = {}
    /\ observed = {}
    /\ pollOut = PollOut("none", 0, NotFound)

Next ==
    \/ GetForm
    \/ CreateForm
    \/ UpdateFormStatus
    \/ AddTranscriptChunk
    \/ GetTranscripts

Spec == Init /\ [][Next]_vars

(* funcs.ts over a forms table that other writers also insert into. *)
NextSchema ==
    \/ InsertUnownedForm
    \/ GetForm
    \/ CreateForm
    \/ UpdateFormStatus
    \/ AddTranscriptChunk
    \/ GetTranscripts

SpecSchema == Init /\ [][NextSchema]_vars

NextHook ==
    \/ CallStarted
    \/ FunctionCall
    \/ CallEnded
    \/ SpeechUpdate
    \/ UnhandledEvent

SpecHook == Init /\ [][NextHook]_vars

(* The relay with every request body, parsed or not. *)
NextHookBodies ==
    \/ CallStarted
    \/ FunctionCall
    \/ CallEnded
    \/ SpeechUpdate
    \/ UnhandledEvent
    \/ UnparsedBody

SpecHookBodies == Init /\ [][NextHookBodies]_vars

(* The vendor delivers call-ended for a call while the gateway is up. *)
CallEndedPersisted(c) ==
    \E now \in clock..MaxClock :
        Deliver([type |-> "call-ended", call |-> Some(c), functionCall |-> None],
                TRUE, now)

(* A function-call webhook that names complete_collection. *)
CompleteCollectionCall ==
    \E payload \in Events, up \in BOOLEAN :
        /\ payload.type = "function-call"
        /\ payload.functionCall # None
        /\ payload.functionCall[1].name = "complete_collection"
        /\ \E now \in Now(payload) : Deliver(payload, up, now)

(* The deliveries that bear on a session's status: every webhook but the
   function calls that save a section or name no known function, which
   neither read nor write status and completedAt. *)
NextLifecycle ==
    \/ CallStarted
    \/ CompleteCollectionCall
    \/ CallEnded
    \/ SpeechUpdate
    \/ UnhandledEvent

(* The session lifecycle under the assumption that, for every call, a
   call-ended delivery that persists is not postponed forever. *)
SpecHookFair ==
    /\ Init
    /\ [][NextLifecycle]_vars
    /\ \A c \in CallIds : WF_vars(CallEndedPersisted(c))

NextAgent ==
    \/ AgentSave
    \/ AgentComplete
    \/ AgentUnknown
    \/ AgentClear

SpecAgent == Init /\ [][NextAgent]_vars

NextClient ==
    \/ LoadVapiResolved
    \/ LoadVapiRejected
    \/ StartInterview
    \/ StartRejected
    \/ OnCallStart
    \/ OnCallEnd
    \/ OnSpeechStart
    \/ OnSpeechEnd
    \/ OnMessage
    \/ OnError
    \/ EndInterview
    \/ StopResolved
    \/ StopRejected
    \/ HandoffSettled

SpecClient == Init /\ [][NextClient]_vars

(* The client with its Cleanup Session button. *)
NextClientCleanup ==
    \/ LoadVapiResolved
    \/ LoadVapiRejected
    \/ StartInterview
    \/ StartRejected
    \/ OnCallStart
    \/ OnCallEnd
    \/ OnSpeechStart
    \/ OnSpeechEnd
    \/ OnMessage
    \/ OnError
    \/ EndInterview
    \/ StopResolved
    \/ StopRejected
    \/ HandoffSettled
    \/ CleanupClicked

SpecClientCleanup == Init /\ [][NextClientCleanup]_vars

(* The vendor delivers call-started for a call while the gateway is up. *)
CallStartedPersisted(c) ==
    Deliver([type |-> "call-started", call |-> Some(c), functionCall |-> None],
            TRUE, clock)

SessionStarted == \E c \in CallIds : CallStartedPersisted(c)
SessionEnded == \E c \in CallIds : CallEndedPersisted(c)

NextRoutes ==
    \/ SessionStarted
    \/ SessionEnded
    \/ ApiRequest

SpecRoutes == Init /\ [][NextRoutes]_vars

NextTracking ==
    \/ StartAutomation
    \/ Advance
    \/ GetStatus
    \/ GetAllSessions
    \/ CleanupSessionData

SpecTracking == Init /\ [][NextTracking]_vars

(* The client's polling against the tracking service. *)
NextPolling ==
    \/ BeginSession
    \/ Advance
    \/ TimeoutFires
    \/ Tick
    \/ PollReturns
    \/ CleanupClicked

SpecPolling == Init /\ [][NextPolling]_vars

NextConfig ==
    \/ SelectLanguage
    \/ GetLanguageConfig
    \/ CreateAssistant

SpecConfig == Init /\ [][NextConfig]_vars

(* ------------------------------ claims -------------------------------- *)

KnownEventTypes == {"call-started", "function-call", "call-ended", "speech-update"}

isTerminal(rec) == rec.status \in TerminalStatuses

(* The keys of obj that belong to keys. *)
restrict(obj, keys) == [k \in (DOMAIN obj) \cap keys |-> obj[k]]

(* C1: once a session's status is completed, failed or abandoned, no later
   operation changes its status or its completedAt. Stated of the forms that
   update_form_status patches; the code breaks it. *)
C1_TerminalImmutability ==
    [][\A f \in 1..Len(forms) :
          isTerminal(forms[f]) =>
              /\ forms'[f].status = forms[f].status
              /\ forms'[f].completedAt = forms[f].completedAt]_vars

(* C2: the store holds exactly one session record per distinct callId,
   whatever sequence of create calls was made. The code breaks it. *)
C2_OneRecordPerCallId ==
    \A i, j \in 1..Len(forms) : forms[i].callId = forms[j].callId => i = j

(* C3: a field update for a callId whose session is absent or terminal is
   never applied: no record changes and, when the mutation ran, it is rejected
   as "no such active session"; a record's fields change only while it is
   in_progress. *)
C3_StaleFieldUpdateRejected ==
    [][/\ (/\ hookReply'.issued = <<"ds160:updateCollectionData">>
           /\ ~isActive(hookReply'.call[1]))
          => /\ collections' = collections
             /\ ~hookReply'.threw => hookReply'.diag = DiagNoActive
       /\ \A c \in CallIds :
             /\ collections[c] # None
             /\ collections'[c][1].data # collections[c][1].data
             => collections[c][1].status = "in_progress"
       /\ \A c \in CallIds :
             (collections[c] = None /\ collections'[c] # None)
             => collections'[c][1].data = EmptyObject]_vars

C3_Witness ==
    /\ hookReply.issued = <<"ds160:updateCollectionData">>
    /\ hookReply.diag = DiagNoActive
    /\ collections[hookReply.call[1]] # None
    /\ isTerminal(collections[hookReply.call[1]][1])
    /\ DOMAIN collections[hookReply.call[1]][1].data # {}

(* C4: a session undergoes at most one terminal transition: a finalize
   request (call-ended or complete_collection) for a session that is already
   terminal leaves its status and completedAt as they are and is rejected;
   the first one to be processed is the one that sets them. *)
C4_SingleTerminalTransition ==
    [][\A c \in CallIds :
          (collections[c] # None /\ isTerminal(collections[c][1]))
          => /\ collections'[c] # None
             /\ collections'[c][1].status = collections[c][1].status
             /\ collections'[c][1].completedAt = collections[c][1].completedAt
             /\ (/\ hookReply'.call = Some(c)
                 /\ hookReply'.issued \in {<<"ds160:updateCollection">>,
                                           <<"ds160:completeCollection">>}
                 /\ ~hookReply'.threw)
                => hookReply'.diag = DiagNoActive]_vars

C4_Witness ==
    /\ hookReply.type = "call-ended"
    /\ hookReply.diag = DiagNoActive
    /\ clock > 0
    /\ collections[hookReply.call[1]] # None
    /\ collections[hookReply.call[1]][1].status = "completed"
    /\ collections[hookReply.call[1]][1].completedAt = Some(0)

(* C5: get_form and get_transcripts requested by an authenticated identity
   that is not the form's owner fail with the authorization error and return
   neither the record nor any transcript text. *)
C5_ReadOwnership ==
    (/\ reply.op \in {"get_form", "get_transcripts"}
     /\ reply.caller \in Users
     /\ reply.formId[1] \in 1..Len(forms)
     /\ forms[reply.formId[1]].userId # Some(reply.caller))
    => /\ reply.error = ErrUnauthorized
       /\ reply.form = None
       /\ reply.text = None

C5_Witness ==
    /\ reply.op = "get_transcripts"
    /\ reply.caller \in Users
    /\ reply.error = ErrUnauthorized
    /\ reply.formId[1] \in 1..Len(forms)
    /\ sent[reply.formId[1]] # <<>>

(* C6: update_form_status and add_transcript_chunk called by an authenticated
   identity other than the form's owner throw and leave the forms and the
   transcripts tables unchanged. *)
C6_WriteOwnership ==
    [][(/\ reply'.op \in {"update_form_status", "add_transcript_chunk"}
        /\ reply'.caller \in Users
        /\ reply'.formId[1] \in 1..Len(forms)
        /\ forms[reply'.formId[1]].userId # Some(reply'.caller))
       => /\ reply'.error = ErrUnauthorized
          /\ forms' = forms
          /\ transcripts' = transcripts]_vars

C6_Witness ==
    /\ reply.op = "update_form_status"
    /\ reply.caller \in Users
    /\ reply.error = ErrUnauthorized
    /\ reply.formId[1] \in 1..Len(forms)
    /\ forms[reply.formId[1]].userId # Some(reply.caller)

(* C7: a webhook whose type is none of call-started, function-call,
   call-ended, speech-update is answered 200, issues no mutation and leaves
   every record as it was. *)
C7_UnknownEventTolerance ==
    [][(hookReply'.type \notin KnownEventTypes)
          => /\ hookReply'.status = HttpOk
             /\ hookReply'.issued = <<>>
             /\ collections' = collections]_vars

C7_Witness ==
    /\ hookReply.type \notin KnownEventTypes \cup {"none"}
    /\ hookReply.status = HttpOk
    /\ hookReply.call # None
    /\ collections[hookReply.call[1]] = None

(* C8: after a field update for a section, the section equals the payload
   of that update exactly: no key of an earlier payload for the section is
   left. Stated of DS160VapiAgent.collectedData; the code breaks it. *)
C8_SectionOverwrite ==
    [][(agentOut'.functionName \in SaveFunctions)
          => restrict(collectedData', properties(agentOut'.functionName))
                = agentOut'.parameters]_vars

(* The chunks of a sequence one after the other, and separated by newlines. *)
concatenated(chunks) ==
    LET f[i \in 0..Len(chunks)] == IF i = 0 THEN <<>> ELSE f[i - 1] \o chunks[i]
    IN f[Len(chunks)]

newlineSeparated(chunks) ==
    LET f[i \in 0..Len(chunks)] ==
            IF i = 0 THEN <<>>
            ELSE IF i = 1 THEN chunks[1]
            ELSE f[i - 1] \o <<"\n">> \o chunks[i]
    IN f[Len(chunks)]

(* C9 as stated: get_transcripts after chunks c1, c2, c3 returns exactly the
   concatenation c1+c2+c3. *)
C9_TranscriptIsConcatenation ==
    (/\ reply.op = "get_transcripts"
     /\ reply.error = NoError
     /\ Len(sent[reply.formId[1]]) = 3)
    => reply.text = Some(concatenated(sent[reply.formId[1]]))

(* C9 as amended: get_transcripts returns the chunks of the form in the order
   in which add_transcript_chunk accepted them, separated by one newline
   each: c1 + "\n" + c2 + "\n" + c3. *)
C9_TranscriptIsNewlineJoined ==
    (/\ reply.op = "get_transcripts"
     /\ reply.error = NoError)
    => reply.text = Some(newlineSeparated(sent[reply.formId[1]]))

C9_Witness ==
    /\ reply.op = "get_transcripts"
    /\ reply.error = NoError
    /\ reply.formId = Some(1)
    /\ Len(sent[1]) = 3
    /\ sent[1][1] # sent[1][2]
    /\ reply.text = Some(sent[1][1] \o <<"\n">> \o sent[1][2] \o <<"\n">> \o sent[1][3])

(* C10: a function-call webhook that saves a section for a callId that was
   never started is answered 200 when the mutation ran: the rejection is only
   a recorded diagnostic and no record is created. *)
C10_StaleUpdateAcknowledged ==
    [][(/\ hookReply'.type = "function-call"
        /\ hookReply'.issued = <<"ds160:updateCollectionData">>
        /\ collections[hookReply'.call[1]] = None
        /\ ~hookReply'.threw)
          => /\ hookReply'.status = HttpOk
             /\ hookReply'.diag = DiagNoActive
             /\ collections' = collections]_vars

C10_Witness ==
    /\ hookReply.type = "function-call"
    /\ hookReply.issued = <<"ds160:updateCollectionData">>
    /\ hookReply.status = HttpOk
    /\ hookReply.diag = DiagNoActive
    /\ collections[hookReply.call[1]] = None

(* C11: when the mutation issued while handling call-started, function-call
   or call-ended fails because the gateway is unreachable, the webhook is
   answered 500 and not 200. *)
C11_PersistenceFailurePropagates ==
    (/\ hookReply.type \in {"call-started", "function-call", "call-ended"}
     /\ hookReply.issued # <<>>
     /\ hookReply.threw)
    => /\ hookReply.status = HttpError
       /\ hookReply.status # HttpOk

C11_Witness ==
    /\ hookReply.type = "function-call"
    /\ hookReply.issued = <<"ds160:updateCollectionData">>
    /\ hookReply.threw
    /\ hookReply.status = HttpError
    /\ isActive(hookReply.call[1])

(* C12: delivering an event of one of the four handled types a second time,
   right after its first delivery and at any later time, leaves the records
   as the first delivery left them; a delivery that failed on an unreachable
   gateway changed nothing, so its retry is the only delivery. *)
C12_SafeRedelivery ==
    [][\A payload \in Events :
          (/\ payload.type \in KnownEventTypes
           /\ payload.type = hookReply'.type
           /\ payload.call = hookReply'.call
           /\ payload.functionCall = hookReply'.functionCall)
          => IF hookReply'.threw
             THEN collections' = collections
             ELSE \A now \in 0..MaxClock :
                     now >= clock'
                     => (handleWebhook(payload, TRUE, now).collections)' = collections']_vars

C12_Witness ==
    /\ hookReply.type = "call-started"
    /\ hookReply.diag = DiagDuplicate
    /\ collections[hookReply.call[1]] # None
    /\ DOMAIN collections[hookReply.call[1]][1].data # {}

(* C13: a session record has completedAt set if and only if its status is
   completed, failed or abandoned. Stated of the forms that update_form_status
   patches; the code breaks it. *)
C13_CompletedAtIffTerminal ==
    \A f \in 1..Len(forms) : (forms[f].completedAt # None) <=> isTerminal(forms[f])

(* C14: a call-started webhook for a callId without a record, when the
   mutation ran, leaves a record for that callId with status in_progress and
   no completedAt; every record that comes into being is in_progress. *)
C14_CallStartedCreatesInProgress ==
    [][/\ (/\ hookReply'.type = "call-started"
           /\ hookReply'.call # None
           /\ collections[hookReply'.call[1]] = None
           /\ ~hookReply'.threw)
          => /\ collections'[hookReply'.call[1]] # None
             /\ collections'[hookReply'.call[1]][1].status = "in_progress"
             /\ collections'[hookReply'.call[1]][1].completedAt = None
       /\ \A c \in CallIds :
             (collections[c] = None /\ collections'[c] # None)
             => /\ collections'[c][1].status = "in_progress"
                /\ collections'[c][1].completedAt = None]_vars

C14_Witness ==
    /\ hookReply.type = "call-started"
    /\ hookReply.status = HttpOk
    /\ hookReply.diag = NoDiag
    /\ hookReply.call # None
    /\ collections[hookReply.call[1]] # None
    /\ collections[hookReply.call[1]][1].status = "in_progress"
    /\ collections[hookReply.call[1]][1].completedAt = None

(* C15: a webhook addressed to one callId leaves the record (status,
   completedAt and collected sections) of every other callId unchanged,
   whatever deliveries for the two calls came before. *)
C15_PerCallIsolation ==
    [][\A c \in CallIds :
          hookReply'.call # Some(c) => collections'[c] = collections[c]]_vars

C15_Witness ==
    /\ hookReply.issued = <<"ds160:updateCollectionData">>
    /\ hookReply.diag = NoDiag
    /\ ~hookReply.threw
    /\ \E c \in CallIds :
          /\ hookReply.call # Some(c)
          /\ collections[c] # None
          /\ DOMAIN collections[c][1].data # {}

(* C16: a second start request made before the previous voice session has
   ended, the window before its call-start event included, is not passed to
   the vendor: a vapi.start() call outstanding and a live call, or two
   outstanding calls, never coexist. The code breaks it. *)
C16_NoOverlappingStarts ==
    vendor.outstanding + (IF vendor.live THEN 1 ELSE 0) <= 1

sessionEnded(s) == s < vendor.calls \/ (s = vendor.calls /\ ~vendor.live)

handoffsOf(s) == {i \in 1..Len(handoffs) : handoffs[i].session = s}

endingOf(s) == {i \in 1..Len(ending) : ending[i].session = s}

(* C17: every voice session results in exactly one hand-off request: never
   two for one call, and, once the call has ended (by stop or on the vendor's
   side) and no endInterview run for it is still under way, not zero. The
   code breaks it. *)
C17_ExactlyOneHandoff ==
    \A s \in 1..vendor.calls :
        /\ Cardinality(handoffsOf(s)) <= 1
        /\ (sessionEnded(s) /\ endingOf(s) = {}) => Cardinality(handoffsOf(s)) = 1

Warnings == {StatusAutomationFailed, StatusAutomationUnreachable}

(* C18: when the hand-off request fails (a non-OK response or a network
   error) the status becomes one of the two warnings; vapi.stop() had been
   called before, the failure leaves isCallActive alone and call-end sets it
   to false whatever the hand-off did, and no session record is changed. *)
C18_HandoffFailureIsWarning ==
    [][/\ (/\ clientOut'.op = "handoff"
           /\ clientOut'.outcome \in {"not_ok", "network_error"})
          => /\ callStatus' \in Warnings
             /\ vendor.stops >= 1
             /\ isCallActive' = isCallActive
             /\ vendor' = vendor
             /\ forms' = forms
             /\ collections' = collections
       /\ clientOut'.op = "call-end" => ~isCallActive']_vars

C18_Witness ==
    /\ clientOut.op = "handoff"
    /\ clientOut.outcome = "network_error"
    /\ callStatus = StatusAutomationUnreachable
    /\ ~isCallActive
    /\ ~vendor.live
    /\ Len(handoffs) = 1

FallbackSource == "https://skypack.dev/@vapi-ai/web@2.3.9"

(* C19: when the SDK's load has failed, the primary source was tried and
   then the fallback source, once, and the failure is shown to the user.
   The code breaks it. *)
C19_SdkLoadFallback ==
    sdk.state = "failed"
    => /\ sdk.imports = <<PrimarySource, FallbackSource>>
       /\ callStatus # StatusIdle

(* C20: endInterview invoked while no session is active (no live call, or
   isCallActive false, or no SDK instance) calls neither vapi.stop() nor the hand-off endpoint
   and leaves the whole client state as it was. *)
C20_StopIdempotent ==
    [][(clientOut'.op = "endInterview" /\ (~vapi \/ ~isCallActive \/ ~vendor.live))
          => /\ clientOut'.outcome = "inactive"
             /\ UNCHANGED <<vapi, sdk, callStatus, isCallActive, conversationData,
                            currentSessionId, vendor, ending, handoffs>>]_vars

C20_Witness ==
    /\ clientOut.op = "endInterview"
    /\ clientOut.outcome = "inactive"
    /\ vapi
    /\ ~isCallActive
    /\ vendor.calls = 1
    /\ vendor.stops = 1
    /\ Len(handoffs) = 1
    /\ ending = <<>>

(* C21: every session created by call-started eventually has a terminal
   status, given that call-ended is eventually delivered for it with the
   gateway up. *)
C21_EventuallyTerminal ==
    \A c \in CallIds :
        (collections[c] # None)
            ~> (collections[c] # None /\ isTerminal(collections[c][1]))

C21_Witness ==
    /\ hookReply.type = "call-ended"
    /\ hookReply.up
    /\ hookReply.status = HttpOk
    /\ hookReply.diag = NoDiag
    /\ collections[hookReply.call[1]] # None
    /\ collections[hookReply.call[1]][1].status = "completed"
    /\ collections[hookReply.call[1]][1].completedAt # None

(* C25: a function-call webhook with a call id issues, for one of the seven
   save_* names, exactly one field-update mutation, which writes the section
   named by the function into the record of that call id and into no other;
   for complete_collection exactly one finalize mutation and no field update;
   for any other name no mutation; and it is answered 200 unless the mutation
   failed. *)
C25_FunctionCallDispatch ==
    [][(/\ hookReply'.type = "function-call"
        /\ hookReply'.functionCall # None
        /\ hookReply'.call # None)
       => /\ (hookReply'.functionCall[1].name \in SaveFunctions)
             => /\ hookReply'.issued = <<"ds160:updateCollectionData">>
                /\ (isActive(hookReply'.call[1]) /\ hookReply'.up)
                   => collections'[hookReply'.call[1]][1].data
                        = (hookReply'.functionCall[1].name
                              :> hookReply'.functionCall[1].parameters)
                          @@ collections[hookReply'.call[1]][1].data
                /\ \A c \in CallIds :
                      c # hookReply'.call[1] => collections'[c] = collections[c]
          /\ (hookReply'.functionCall[1].name = "complete_collection")
             => /\ hookReply'.issued = <<"ds160:completeCollection">>
                /\ collections[hookReply'.call[1]] # None
                   => collections'[hookReply'.call[1]][1].data
                        = collections[hookReply'.call[1]][1].data
          /\ (hookReply'.functionCall[1].name
                \notin SaveFunctions \cup {"complete_collection"})
             => /\ hookReply'.issued = <<>>
                /\ collections' = collections
          /\ ~hookReply'.threw => hookReply'.status = HttpOk]_vars

C25_Witness ==
    /\ hookReply.type = "function-call"
    /\ hookReply.functionCall # None
    /\ hookReply.functionCall[1].name = "complete_collection"
    /\ hookReply.issued = <<"ds160:completeCollection">>
    /\ hookReply.status = HttpOk
    /\ hookReply.diag = NoDiag
    /\ collections[hookReply.call[1]][1].status = "completed"
    /\ DOMAIN collections[hookReply.call[1]][1].data
          = {"save_passport_info", "save_family_info"}

(* C29: a speech-update webhook is answered 200, issues no mutation and
   leaves every record as it was, whether the gateway is up or not. *)
C29_SpeechUpdateAcknowledged ==
    [][(hookReply'.type = "speech-update")
          => /\ hookReply'.status = HttpOk
             /\ hookReply'.issued = <<>>
             /\ ~hookReply'.threw
             /\ collections' = collections]_vars

C29_Witness ==
    /\ hookReply.type = "speech-update"
    /\ ~hookReply.up
    /\ hookReply.status = HttpOk
    /\ hookReply.call # None
    /\ isActive(hookReply.call[1])
    /\ DOMAIN collections[hookReply.call[1]][1].data # {}

(* C26: add_transcript_chunk called by the owner of a form succeeds and
   appends one chunk for that form whatever the form's status, and leaves
   the form (its status and completedAt) as it was. *)
C26_TranscriptIndependentOfStatus ==
    [][(/\ reply'.op = "add_transcript_chunk"
        /\ reply'.caller \in Users
        /\ reply'.formId[1] \in 1..Len(forms)
        /\ forms[reply'.formId[1]].userId = Some(reply'.caller))
       => /\ reply'.error = NoError
          /\ Len(transcripts') = Len(transcripts) + 1
          /\ SubSeq(transcripts', 1, Len(transcripts)) = transcripts
          /\ transcripts'[Len(transcripts')].formId = reply'.formId[1]
          /\ forms' = forms]_vars

C26_Witness ==
    /\ reply.op = "add_transcript_chunk"
    /\ reply.error = NoError
    /\ isTerminal(forms[reply.formId[1]])
    /\ forms[reply.formId[1]].completedAt = Some(0)
    /\ clock = 0
    /\ collectByFormId(reply.formId[1]) # <<>>

(* C27: no operation changes the callId or the owner of a form that exists,
   and no form is removed. *)
C27_CallIdImmutable ==
    [][\A f \in 1..Len(forms) :
          /\ f <= Len(forms')
          /\ forms'[f].callId = forms[f].callId
          /\ forms'[f].userId = forms[f].userId]_vars

C27_Witness ==
    /\ reply.op = "update_form_status"
    /\ reply.error = NoError
    /\ forms[reply.formId[1]].status = "abandoned"
    /\ forms[reply.formId[1]].callId = "abc"
    /\ forms[reply.formId[1]].userId = Some(reply.caller)
    /\ collectByFormId(reply.formId[1]) # <<>>

isPrefix(a, b) == Len(a) <= Len(b) /\ SubSeq(b, 1, Len(a)) = a

(* C28: the stored chunks are append-only: each step leaves the rows of the
   transcripts table, and so the chunk sequence of every form, a prefix of
   what they are afterwards. *)
C28_ChunksAppendOnly ==
    [][/\ isPrefix(transcripts, transcripts')
       /\ \A f \in FormIds :
             isPrefix(collectByFormId(f), collectByFormId(f)')]_vars

C28_Witness ==
    /\ reply.op = "update_form_status"
    /\ reply.error = NoError
    /\ Len(collectByFormId(reply.formId[1])) = 2
    /\ mapChunk(collectByFormId(reply.formId[1])) = <<<<"a">>, <<"b">>>>

(* C30: when vapi.start() rejects, the failure is shown (callStatus carries the
   vendor's error message), no further start is issued, and the rejection does
   not raise isCallActive: it stays false when it was false, and it is false
   whenever no call is live.  The SDK's error event likewise shows the
   vendor's message, clears isCallActive and starts nothing. *)
C30_StartFailureSurfaced ==
    [][/\ (clientOut'.op = "startInterview" /\ clientOut'.outcome = "failed")
           => /\ callStatus' = startFailedStatus(clientOut'.error)
              /\ clientOut'.error # None
                    => callStatus' = "Failed to start call: " \o clientOut'.error[1]
              /\ vendor'.starts = vendor.starts
              /\ vendor'.calls = vendor.calls
              /\ isCallActive' = isCallActive
              /\ ~vendor.live => ~isCallActive'
       /\ clientOut'.op = "error"
           => /\ callStatus' = errorStatus(clientOut'.error)
              /\ vendor' = vendor
              /\ ~isCallActive']_vars

C30_Witness ==
    /\ clientOut.op = "startInterview"
    /\ clientOut.outcome = "failed"
    /\ clientOut.error = Some("Permission denied")
    /\ callStatus = "Failed to start call: Permission denied"
    /\ ~isCallActive
    /\ vendor.starts = 1
    /\ vendor.outstanding = 0

(* C23: a GET of /api/collections/ready-for-fill is served by the
   ready-for-form-fill listing (query ds160:getReadyForFormFill), not by the
   get-collection-by-callId handler with callId = "ready-for-fill". *)
C23_ReadyForFillRoute ==
    (apiReply.method = "GET" /\ apiReply.path = <<"api", "collections", ReadyForFill>>)
        => /\ apiReply.handler = "getReadyForFormFill"
           /\ apiReply.query = "ds160:getReadyForFormFill"

(* C24: cleanup is a hard delete by id.  The status of an id the service does
   not hold (never created, or removed by DELETE /tracking/cleanup/{id}) is
   answered 200 with a not-found status; a cleanup step removes the session,
   and the id is then not in the list of all sessions. *)
C24_CleanupIsHardDelete ==
    [][/\ trackReply'.op = "cleanup"
           => /\ sessions'[trackReply'.id[1]] = None
              /\ trackReply'.id[1] \notin allSessions'
              /\ \A id \in SessionIds \ {trackReply'.id[1]} :
                     sessions'[id] = sessions[id]
       /\ (trackReply'.op = "status" /\ sessions[trackReply'.id[1]] = None)
           => /\ trackReply'.status = HttpOk
              /\ trackReply'.body = Some(NotFound)
       /\ trackReply'.op = "list"
           => /\ trackReply'.status = HttpOk
              /\ trackReply'.body = allSessions
              /\ \A id \in SessionIds :
                     sessions[id] = None => id \notin trackReply'.body]_vars

C24_Witness ==
    /\ trackReply.op = "cleanup"
    /\ trackReply.id = Some(0)
    /\ trackReply.body = Some("running")
    /\ sessions[0] = None
    /\ allSessions = {1}

(* C22: the configuration lookup is total: a supported key gets its own
   bundle, any unrecognized key gets the default (English) bundle, never
   nothing; and a lookup changes nothing but its answer. *)
C22_LookupTotal ==
    [][configOut' # configOut
        => /\ configOut'.key # None
           /\ configOut'.bundle # None
           /\ configOut'.key[1] \in SupportedLanguages
                 => configOut'.bundle = Some(LANGUAGE_CONFIG[configOut'.key[1]])
           /\ configOut'.key[1] \notin SupportedLanguages
                 => configOut'.bundle = Some(LANGUAGE_CONFIG["en-US"])
           /\ selectedLanguage' = selectedLanguage
           /\ assistant' \in {assistant, configOut'.bundle}]_vars

C22_Witness ==
    /\ configOut.key = Some("xx-XX")
    /\ configOut.bundle = Some(Bundle("en", "en-US-AriaNeural"))
    /\ selectedLanguage = "es-ES"
    /\ assistant = Some(Bundle("es", "es-ES-ElviraNeural"))

FuncsOperations ==
    {"get_form", "create_form", "update_form_status", "add_transcript_chunk",
     "get_transcripts"}

(* C31: every operation of funcs.ts invoked without an authenticated identity
   throws "User not authenticated", returns nothing, and leaves the forms and
   transcripts tables unchanged. *)
C31_UnauthenticatedRejected ==
    [][(reply'.op \in FuncsOperations /\ reply'.caller = NoIdentity)
        => /\ reply'.error = ErrNotAuthenticated
           /\ reply'.error = "User not authenticated"
           /\ reply'.form = None
           /\ reply'.text = None
           /\ forms' = forms
           /\ transcripts' = transcripts]_vars

C31_Witness ==
    /\ reply.op = "add_transcript_chunk"
    /\ reply.caller = NoIdentity
    /\ reply.error = ErrNotAuthenticated
    /\ reply.formId = Some(1)
    /\ Len(forms) = 1
    /\ Len(transcripts) = 1

(* C32: every form create_form inserts has userId equal to the caller's
   identity; a form without userId is read or modified by no caller: get_form,
   update_form_status, add_transcript_chunk and get_transcripts reject every
   identity for it and change nothing. *)
C32_OwnerStampedAndUnownedClosed ==
    [][/\ (reply'.op = "create_form" /\ reply'.error = NoError)
           => /\ Len(forms') = Len(forms) + 1
              /\ forms'[Len(forms')].userId = Some(reply'.caller)
              /\ reply'.caller \in Users
       /\ (/\ reply'.op \in FuncsOperations \ {"create_form"}
           /\ reply'.formId[1] \in 1..Len(forms)
           /\ forms[reply'.formId[1]].userId = None)
           => /\ reply'.error # NoError
              /\ reply'.form = None
              /\ reply'.text = None
              /\ forms' = forms
              /\ transcripts' = transcripts]_vars

C32_Witness ==
    /\ reply.op = "update_form_status"
    /\ reply.caller = "u1"
    /\ reply.formId = Some(1)
    /\ reply.error = ErrUnauthorized
    /\ Len(forms) = 2
    /\ forms[1].userId = None
    /\ forms[1].status = "in_progress"
    /\ forms[2].userId = Some("u1")

(* C33: transcript isolation.  A chunk added for form A is stored against a
   form that exists and that the caller owns, joins the rows get_transcripts
   reads for A, and changes the rows and the text of no other form;
   get_transcripts(B) returns the chunks sent for B and nothing else; every
   stored chunk references an existing form. *)
C33_TranscriptIsolation ==
    [][/\ \A A \in FormIds :
           (/\ reply'.op = "add_transcript_chunk"
            /\ reply'.error = NoError
            /\ reply'.formId = Some(A))
           => /\ A \in 1..Len(forms)
              /\ forms[A].userId = Some(reply'.caller)
              /\ transcripts'[Len(transcripts')].formId = A
              /\ collectByFormId(A)'
                     = Append(collectByFormId(A), transcripts'[Len(transcripts')])
              /\ \A B \in FormIds \ {A} :
                     collectByFormId(B)' = collectByFormId(B)
       /\ (reply'.op = "get_transcripts" /\ reply'.error = NoError)
           => /\ forms[reply'.formId[1]].userId = Some(reply'.caller)
              /\ reply'.text = Some(join(sent[reply'.formId[1]], <<"\n">>))
       /\ \A i \in 1..Len(transcripts') :
              transcripts'[i].formId \in 1..Len(forms')]_vars

C33_Witness ==
    /\ reply.op = "get_transcripts"
    /\ reply.error = NoError
    /\ reply.formId = Some(2)
    /\ reply.text = Some(<<"b">>)
    /\ sent[1] = <<<<"a">>>>
    /\ Len(transcripts) = 2
    /\ transcripts[1].formId = 1

(* C34: handleWebhook never lets an exception escape: for every delivery (a
   body that is not JSON, a payload without call or functionCall, a failing
   mutation, and all others) it resolves to a response of status 200 or 500,
   and it issues at most one persistence mutation. *)
C34_WebhookNeverThrows ==
    /\ ~hookReply.escaped
    /\ hookReply.status \in {200, 500}
    /\ Len(hookReply.issued) <= 1
    /\ hookReply.type \in UnparsedBodies
           => hookReply.status = 500 /\ hookReply.issued = <<>>
    /\ (hookReply.type \in {"call-started", "call-ended"} /\ hookReply.call = None)
           => hookReply.status = 500 /\ hookReply.issued = <<>>
    /\ (hookReply.type = "function-call" /\ hookReply.functionCall = None)
           => hookReply.status = 500 /\ hookReply.issued = <<>>
    /\ hookReply.threw => hookReply.status = 500

C34_Witness ==
    /\ hookReply.type = "not json"
    /\ hookReply.status = 500
    /\ ~hookReply.escaped
    /\ collections["abc"] # None
    /\ collections["abc"][1].status = "in_progress"

(* C35: isCallActive starts false, becomes true at a call-start event and only
   there, becomes false at a call-end or error event and only there, and is
   left as it is by every other step (startInterview and endInterview among
   them): it is true exactly when the most recent lifecycle event is
   call-start. *)
C35_CallActiveFollowsEvents ==
    /\ ~isCallActive
    /\ [][/\ clientOut'.op = "call-start" => isCallActive'
          /\ clientOut'.op \in {"call-end", "error"} => ~isCallActive'
          /\ clientOut'.op \notin {"call-start", "call-end", "error"}
                => isCallActive' = isCallActive]_vars

C35_Witness ==
    /\ clientOut.op = "endInterview"
    /\ clientOut.outcome = "stopping"
    /\ isCallActive
    /\ vendor.live
    /\ vendor.calls = 2

(* C37 (parts that hold): an interval is live only while a session id exists
   and the last known status is running or initializing, it polls the current
   session, and at most one interval is live; a poll of the interval that
   returns completed or error leaves no interval live and the alerts of its
   session fetched. *)
C37_TimerOnlyWhilePolling ==
    /\ Cardinality(timers) <= 1
    /\ \A t \in timers :
           /\ currentSessionId = Some(t.session)
           /\ automationStatus # None
           /\ automationStatus[1] \in PollingStatuses
           /\ statusInterval = Some(t.id)
    /\ (pollOut.op = "returns" /\ pollOut.status \in DoneStatuses)
           => timers = {}

(* C37: an interval is live only while a session id exists and the last known
   status is running or initializing, at most one is live, and once a poll has
   observed completed or error for a session no further automatic poll is
   issued for that session. *)
C37_PollingStopsWhenDone ==
    [][/\ Cardinality(timers') <= 1
       /\ \A t \in timers' :
              /\ currentSessionId' # None
              /\ automationStatus' # None
              /\ automationStatus'[1] \in PollingStatuses
       /\ pollOut'.op = "tick" => pollOut'.session \notin observed]_vars

(* C36: conversationData is append-only and holds exactly the final
   transcripts in arrival order: a final transcript message appends its entry,
   any other message and any other step (call-end, a new start, cleanup)
   leaves the list as it is; an End click hands the whole list to its run, so
   the hand-off of a later call carries the transcripts of earlier calls. *)
C36_ConversationAppendOnly ==
    [][/\ isPrefix(conversationData, conversationData')
       /\ clientOut'.op = "message"
           => IF /\ clientOut'.message[1].type = "transcript"
                 /\ clientOut'.message[1].transcriptType = "final"
              THEN /\ Len(conversationData') = Len(conversationData) + 1
                   /\ conversationData'[Len(conversationData')].role
                         = clientOut'.message[1].role
                   /\ conversationData'[Len(conversationData')].transcript
                         = clientOut'.message[1].transcript
              ELSE conversationData' = conversationData
       /\ clientOut'.op # "message" => conversationData' = conversationData
       /\ (clientOut'.op = "endInterview" /\ clientOut'.outcome = "stopping")
           => ending'[Len(ending')].data = conversationData
       /\ (clientOut'.op = "stop" /\ clientOut'.outcome = "resolved")
           => /\ isPrefix(handoffs'[Len(handoffs')].conversation_data,
                          conversationData)
              /\ handoffs'[Len(handoffs')].total_messages
                    = Len(handoffs'[Len(handoffs')].conversation_data)]_vars

C36_Witness ==
    /\ Len(handoffs) = 2
    /\ handoffs[1].session = 1
    /\ handoffs[1].total_messages = 1
    /\ handoffs[2].session = 2
    /\ handoffs[2].conversation_data = handoffs[1].conversation_data
    /\ currentSessionId = None
    /\ clientOut.op = "cleanup"
    /\ Len(conversationData) = 1

(* C38: handleFunctionCall changes collectedData only for the seven save_*
   names; complete_collection and unknown names leave it as it is; a save to
   the backend is attempted exactly when the name is complete_collection; a
   save that fails (non-OK response or rejected fetch) does not throw to the
   caller and does not clear collectedData. *)
C38_HandleFunctionCallFrame ==
    [][(agentOut'.functionName # "clearData")
          => /\ agentOut'.functionName \notin SaveFunctions
                   => collectedData' = collectedData
             /\ saveAttempts' \in {saveAttempts, saveAttempts + 1}
             /\ (saveAttempts' = saveAttempts + 1)
                   <=> (agentOut'.functionName = "complete_collection")
             /\ agentOut'.functionName # "complete_collection"
                   => agentOut'.save = "not_attempted"
             /\ agentOut'.save \in {"not_ok", "network_error"}
                   => /\ collectedData' = collectedData
                      /\ ~agentOut'.threw
             /\ ~agentOut'.threw]_vars

C38_Witness ==
    /\ agentOut.functionName = "complete_collection"
    /\ agentOut.save = "network_error"
    /\ saveAttempts = 1
    /\ collectedData # EmptyObject

====
